---- MODULE Spec2Model ----
(***************************************************************************)
(* Model of the xtask build orchestrator (xtask/src/main.rs):              *)
(*   - parse_native_libraries  (Diagnostic Scanner + Library Resolver)     *)
(*   - build_plugin / build_universal_macos_binary (the pipeline)          *)
(*   - copy_plugin_files / copy_dir_recursive (Artifact Placer)            *)
(* and of the two example plugins it builds:                               *)
(*   - GainPluginFactory (plugins/gain-example/src/lib.rs)                 *)
(*   - the GUI extension of the web-UI plugin                              *)
(*     (plugins/web-ui-example/src/gui/mod.rs, gui/dpi.rs)                 *)
(*                                                                         *)
(* Text is modelled as sequences of symbols.  A symbol is either a single  *)
(* character (a space, a quote, a backtick, "/", ".", a letter) or one of   *)
(* the whitespace-free words "--crate-name", "-L" and "native=" that the   *)
(* scanner searches for.                                                   *)
(***************************************************************************)
EXTENDS Integers, Sequences, FiniteSets, TLC

\* ------------------------------------------------------------------------
\* Bounds
\* ------------------------------------------------------------------------
MaxOutLines == 2
MaxErrLines == 1
\* the largest index a host asks the plugin factory about
MaxIndex == 3
\* the most plugin instances a host creates
MaxInstances == 3

\* ------------------------------------------------------------------------
\* Generic text helpers (Rust str methods used by the code)
\* ------------------------------------------------------------------------

\* str::find(pat): index of the first match, 0 when there is none
Find(s, pat) ==
    LET hits == {i \in 1..(Len(s) - Len(pat) + 1) : SubSeq(s, i, i + Len(pat) - 1) = pat}
    IN IF hits = {} THEN 0 ELSE CHOOSE i \in hits : \A j \in hits : i <= j

\* str::contains(pat)
Contains(s, pat) == Find(s, pat) # 0

\* str::split(pat): pieces between the non-overlapping matches, left to right
RECURSIVE Split(_, _)
Split(s, pat) ==
    LET i == Find(s, pat)
    IN IF i = 0 THEN <<s>>
       ELSE <<SubSeq(s, 1, i - 1)>> \o Split(SubSeq(s, i + Len(pat), Len(s)), pat)

\* str::replace('-', "_")
Normalize(name) == [i \in 1..Len(name) |-> IF name[i] = "-" THEN "_" ELSE name[i]]

\* str::trim_matches('"')
RECURSIVE TrimStart(_, _)
TrimStart(s, c) == IF s # <<>> /\ Head(s) = c THEN TrimStart(Tail(s), c) ELSE s
RECURSIVE TrimEnd(_, _)
TrimEnd(s, c) ==
    IF s # <<>> /\ s[Len(s)] = c THEN TrimEnd(SubSeq(s, 1, Len(s) - 1), c) ELSE s
TrimMatches(s, c) == TrimEnd(TrimStart(s, c), c)

\* the backtick character (written as a word: the lexer rejects it in strings)
Backtick == "BACKTICK"

\* the closure of str::find at main.rs:273: whitespace or backtick
IsDelimiter(c) == c = " " \/ c = Backtick

\* the match at main.rs:273-277: cut at the first delimiter, strip quotes
CleanPath(part) ==
    LET hits == {i \in 1..Len(part) : IsDelimiter(part[i])}
        pos  == IF hits = {} THEN 0 ELSE CHOOSE i \in hits : \A j \in hits : i <= j
        cut  == IF pos = 0 THEN part ELSE SubSeq(part, 1, pos - 1)
    IN TrimMatches(cut, "\"")

\* PathBuf::from: paths compare by components, so trailing separators are
\* not significant ("p/" and "p" are the same PathBuf)
PathBufFrom(text) ==
    LET t == TrimEnd(text, "/")
    IN IF t = <<>> /\ text # <<>> THEN <<"/">> ELSE t

\* the two patterns the scanner looks for
CrateNameMarker(crate) == <<"--crate-name", " ">> \o Normalize(crate)
NativeMarker == <<"-L", " ", "native=">>

\* ------------------------------------------------------------------------
\* Host platform (cfg!(target_os = ...), cfg!(windows)): fixed per build
\* ------------------------------------------------------------------------
Hosts == {"linux", "macos", "windows"}

\* ------------------------------------------------------------------------
\* The directories the diagnostics may name, as the file system shows them
\* to Path::exists / Path::is_dir / fs::read_dir / Path::is_file.
\*   p, q  readable directories        s  a symbolic link to p
\*   f     a regular file              u  a directory that cannot be read
\*   /     the root directory          anything else does not exist
\* "real" is the directory a path resolves to (its canonical path).
\* ------------------------------------------------------------------------
NoNode == [kind |-> "none", real |-> <<>>, readable |-> FALSE]
NativeNode(path) ==
    CASE path = <<"p">> -> [kind |-> "dir",  real |-> <<"p">>, readable |-> TRUE]
      [] path = <<"s">> -> [kind |-> "dir",  real |-> <<"p">>, readable |-> TRUE]
      [] path = <<"q">> -> [kind |-> "dir",  real |-> <<"q">>, readable |-> TRUE]
      [] path = <<"u">> -> [kind |-> "dir",  real |-> <<"u">>, readable |-> FALSE]
      [] path = <<"/">> -> [kind |-> "dir",  real |-> <<"/">>, readable |-> TRUE]
      [] path = <<"f">> -> [kind |-> "file", real |-> <<"f">>, readable |-> TRUE]
      [] OTHER          -> NoNode

\* Path::exists and Path::is_dir (both follow symbolic links)
PathExists(path) == NativeNode(path).kind # "none"
PathIsDir(path)  == NativeNode(path).kind = "dir"

\* the entries fs::read_dir yields for a directory: name and kind
DirEntries(real) ==
    CASE real = <<"p">> ->
           { [name |-> <<"x", ".", "a">>,           kind |-> "file"],
             [name |-> <<"x", ".", "l", "i", "b">>, kind |-> "file"],
             [name |-> <<"n", ".", "t", "x", "t">>, kind |-> "file"],
             [name |-> <<".", "a">>,                kind |-> "file"],
             [name |-> <<"d", ".", "a">>,           kind |-> "dir"] }
      [] real = <<"q">> ->
           { [name |-> <<"y", ".", "s", "o">>,      kind |-> "file"],
             [name |-> <<"y", ".", "d", "l", "l">>, kind |-> "file"],
             [name |-> <<"z", ".", "d", "y", "l", "i", "b", ".", "1">>, kind |-> "file"],
             [name |-> <<"s", "o">>,                kind |-> "file"] }
      [] OTHER -> {}

\* Path::extension of a file name: the text after the last dot; none when
\* there is no dot or the only dot leads the name
Extension(name) ==
    LET dots == {i \in 1..Len(name) : name[i] = "."}
        last == IF dots = {} THEN 0 ELSE CHOOSE i \in dots : \A j \in dots : j <= i
    IN IF last <= 1 THEN <<>> ELSE SubSeq(name, last + 1, Len(name))

\* the host convention test at main.rs:307-311
IsLibraryName(h, name) ==
    LET extension == Extension(name)
    IN \/ h = "windows" /\ (extension = <<"l", "i", "b">> \/ extension = <<"d", "l", "l">>)
       \/ h # "windows" /\ ( \/ extension = <<"a">>
                             \/ extension = <<"s", "o">>
                             \/ Contains(name, <<".", "d", "y", "l", "i", "b">>) )

\* the files of one search directory that the resolver pushes
\* (entry.path() is the search directory joined with the entry's name)
LibraryFilesIn(h, dir) ==
    { [dir |-> dir, name |-> e.name] :
        e \in {d \in DirEntries(NativeNode(dir).real) :
                 d.kind = "file" /\ IsLibraryName(h, d.name)} }

\* the file on disk a returned path denotes
CanonicalFile(file) == [dir |-> NativeNode(file.dir).real, name |-> file.name]

\* ------------------------------------------------------------------------
\* Diagnostic Scanner: the body of the per-line loop (main.rs:260-285)
\* ------------------------------------------------------------------------
MarkedPaths(line) ==
    LET parts == Tail(Split(line, NativeMarker))
    IN {PathBufFrom(CleanPath(parts[i])) : i \in 1..Len(parts)}

\* the flag follows the current line only instead of staying set
ScanLineFlagPerLine(line, crate, flag, paths) ==
    LET in == Contains(line, CrateNameMarker(crate))
    IN [ in_target_crate  |-> in,
         native_lib_paths |->
             IF in /\ Contains(line, NativeMarker)
             THEN paths \cup {p \in MarkedPaths(line) : PathExists(p)}
             ELSE paths ]

ScanLine(line, crate, flag, paths) ==
    LET in == flag \/ Contains(line, CrateNameMarker(crate))
    IN [ in_target_crate  |-> in,
         native_lib_paths |->
             IF in /\ Contains(line, NativeMarker)
             THEN paths \cup {p \in MarkedPaths(line) : PathExists(p)}
             ELSE paths ]

\* ------------------------------------------------------------------------
\* Diagnostic text the toolchain may print
\* ------------------------------------------------------------------------
GainExample      == <<"g", "-", "e">>            \* a crate named g-e
GainExampleUtils == <<"g", "_", "e", "_", "u">>  \* a crate named g_e_u
Dep              == <<"d">>                      \* a crate named d
CrateNames       == {GainExample, Dep}

\* a byte that is not valid UTF-8
InvalidByte == "INVALID"

RustcLine(crate, rest) ==
    <<"Running", " ", Backtick, "rustc", " ">> \o CrateNameMarker(crate) \o rest \o <<Backtick>>

ScanLines ==
    { RustcLine(GainExample, <<" ">> \o NativeMarker \o <<"p">>),
      RustcLine(GainExample, <<>>),
      RustcLine(Dep, <<" ">> \o NativeMarker \o <<"q">>),
      RustcLine(GainExampleUtils, <<" ">> \o NativeMarker \o <<"q">>),
      NativeMarker \o <<"\"", "s", "\"">>,
      NativeMarker \o <<"p", "/", " ">> \o NativeMarker \o <<"f">>,
      NativeMarker \o <<" ">> \o NativeMarker \o <<"n">>,
      NativeMarker \o <<"u">>,
      <<"Compiling", " ", "g", "-", "e">>,
      <<"warning", InvalidByte>> }

Streams(n) == UNION {[1..k -> ScanLines] : k \in 0..n}

\* all orders in which the members of a finite set can be produced
Orders(S) == {q \in [1..Cardinality(S) -> S] : {q[i] : i \in 1..Cardinality(S)} = S}

\* ------------------------------------------------------------------------
\* State
\* ------------------------------------------------------------------------
VARIABLES
    host,              \* the platform the tool was compiled for
    crate_name,        \* parse_native_libraries: the crate_name argument
    stdout,            \* parse_native_libraries: the stdout argument, as lines
    stderr,            \* parse_native_libraries: the stderr argument, as lines
    stream,            \* which of [stdout, stderr] the outer loop is at (1, 2)
    lineNo,            \* the next line of that stream
    in_target_crate,   \* the flag of main.rs:258
    native_lib_paths,  \* the HashSet of main.rs:252
    pending,           \* the members of native_lib_paths the loop at 294 has not visited
    native_lib_files,  \* the Vec of main.rs:253
    ppc,               \* position in parse_native_libraries: scan, resolve, ok, err
    request,           \* build_plugin: crate_name, release, bundle_id, clean, install
    pc,                \* position in build_plugin
    fs,                \* the project tree on disk
    fs0,               \* the project tree when the run started
    calls,             \* the phases the run has started so far, with their outcome
    native_libraries,  \* build_plugin: native_libraries (main.rs:86)
    arch_libs,         \* build_universal_macos_binary: x86_64_libs (main.rs:382)
    static_lib_file,   \* build_plugin: static_lib_file (main.rs:86)
    result,            \* what build_plugin returned
    factory,           \* the GainPluginFactory of the gain example
    answer,            \* the last call of the host on the factory, with what it returned
    instances,         \* the plugin instances create_plugin has returned
    scale_factor,      \* WebUiPluginMainThread::scale_factor
    gui_size,          \* WebUiPluginMainThread::gui_size, in logical pixels
    web_view,          \* whether WebUiPluginMainThread::web_view holds a web view
    gui_answer         \* the last call of the host on the GUI extension, with what it returned

scanVars == <<crate_name, stdout, stderr, stream, lineNo, in_target_crate,
              native_lib_paths, pending, native_lib_files, ppc>>

pipeVars == <<request, pc, fs, fs0, calls, native_libraries, arch_libs,
              static_lib_file, result>>

factoryVars == <<factory, answer, instances>>

guiVars == <<scale_factor, gui_size, web_view, gui_answer>>

plugVars == <<factoryVars, guiVars>>

vars == <<host, scanVars, pipeVars, plugVars>>

\* the plugins are not loaded while the build tool runs
FactoryIdle ==
    /\ factory = <<>>
    /\ answer = <<>>
    /\ instances = <<>>

GuiIdle ==
    /\ scale_factor = <<>>
    /\ gui_size = <<>>
    /\ web_view = FALSE
    /\ gui_answer = <<>>

\* ------------------------------------------------------------------------
\* parse_native_libraries, one loop iteration per step
\* ------------------------------------------------------------------------
CurrentStream == IF stream = 1 THEN stdout ELSE stderr

ScanInit ==
    /\ host \in Hosts
    /\ crate_name \in CrateNames
    /\ stdout \in Streams(MaxOutLines)
    /\ stderr \in Streams(MaxErrLines)
    /\ stream = 1
    /\ lineNo = 1
    /\ in_target_crate = FALSE
    /\ native_lib_paths = {}
    /\ pending = {}
    /\ native_lib_files = <<>>
    /\ ppc = "scan"
    /\ request = [crate_name |-> <<>>, release |-> FALSE, bundle_id |-> "", clean |-> FALSE,
                  install |-> FALSE]
    /\ pc = "idle"
    /\ fs = <<>>
    /\ fs0 = <<>>
    /\ calls = <<>>
    /\ native_libraries = <<>>
    /\ arch_libs = {}
    /\ static_lib_file = <<>>
    /\ result = [ok |-> FALSE, message |-> <<>>]
    /\ FactoryIdle
    /\ GuiIdle

\* a line that starts the compilation unit of another crate clears the flag
ScanNextLineClosing ==
    /\ ppc = "scan"
    /\ lineNo <= Len(CurrentStream)
    /\ ~Contains(CurrentStream[lineNo], <<InvalidByte>>)
    /\ LET line == CurrentStream[lineNo]
           other == /\ Contains(line, <<"--crate-name", " ">>)
                    /\ ~Contains(line, CrateNameMarker(crate_name))
           r == ScanLine(line, crate_name, in_target_crate /\ ~other, native_lib_paths)
       IN /\ in_target_crate' = r.in_target_crate
          /\ native_lib_paths' = r.native_lib_paths
    /\ lineNo' = lineNo + 1
    /\ UNCHANGED <<plugVars, pipeVars, host, crate_name, stdout, stderr, stream, pending, native_lib_files, ppc>>

\* main.rs:260-285 for a line that decodes
ScanNextLine ==
    /\ ppc = "scan"
    /\ lineNo <= Len(CurrentStream)
    /\ ~Contains(CurrentStream[lineNo], <<InvalidByte>>)
    /\ LET r == ScanLine(CurrentStream[lineNo], crate_name, in_target_crate, native_lib_paths)
       IN /\ in_target_crate' = r.in_target_crate
          /\ native_lib_paths' = r.native_lib_paths
    /\ lineNo' = lineNo + 1
    /\ UNCHANGED <<plugVars, pipeVars, host, crate_name, stdout, stderr, stream, pending, native_lib_files, ppc>>

\* main.rs:261: BufRead::lines yields an error for a line that is not UTF-8
ScanBadLine ==
    /\ ppc = "scan"
    /\ lineNo <= Len(CurrentStream)
    /\ Contains(CurrentStream[lineNo], <<InvalidByte>>)
    /\ ppc' = "err"
    /\ UNCHANGED <<plugVars, pipeVars, host, crate_name, stdout, stderr, stream, lineNo, in_target_crate,
                   native_lib_paths, pending, native_lib_files>>

\* the flag of the first stream is carried into the second
NextStreamKeepingFlag ==
    /\ ppc = "scan"
    /\ lineNo > Len(CurrentStream)
    /\ stream = 1
    /\ stream' = 2
    /\ lineNo' = 1
    /\ UNCHANGED <<plugVars, pipeVars, host, crate_name, stdout, stderr, native_lib_paths, pending,
                   native_lib_files, ppc, in_target_crate>>

\* main.rs:256-258: the next stream starts with a fresh flag
NextStream ==
    /\ ppc = "scan"
    /\ lineNo > Len(CurrentStream)
    /\ stream = 1
    /\ stream' = 2
    /\ lineNo' = 1
    /\ in_target_crate' = FALSE
    /\ UNCHANGED <<plugVars, pipeVars, host, crate_name, stdout, stderr, native_lib_paths, pending,
                   native_lib_files, ppc>>

\* main.rs:286-294: both streams are read, the resolver loop starts
ScanDone ==
    /\ ppc = "scan"
    /\ lineNo > Len(CurrentStream)
    /\ stream = 2
    /\ ppc' = "resolve"
    /\ pending' = native_lib_paths
    /\ UNCHANGED <<plugVars, pipeVars, host, crate_name, stdout, stderr, stream, lineNo, in_target_crate,
                   native_lib_paths, native_lib_files>>

\* main.rs:295: a collected path that is not a directory is passed over
ResolveSkip ==
    /\ ppc = "resolve"
    /\ \E dir \in pending :
         /\ ~(PathExists(dir) /\ PathIsDir(dir))
         /\ pending' = pending \ {dir}
    /\ UNCHANGED <<plugVars, pipeVars, host, crate_name, stdout, stderr, stream, lineNo, in_target_crate,
                   native_lib_paths, native_lib_files, ppc>>

\* main.rs:296-316: the directory is listed, its library files are pushed
ResolveDir ==
    /\ ppc = "resolve"
    /\ \E dir \in pending :
         /\ PathExists(dir) /\ PathIsDir(dir)
         /\ NativeNode(dir).readable
         /\ \E order \in Orders(LibraryFilesIn(host, dir)) :
              native_lib_files' = native_lib_files \o order
         /\ pending' = pending \ {dir}
    /\ UNCHANGED <<plugVars, pipeVars, host, crate_name, stdout, stderr, stream, lineNo, in_target_crate,
                   native_lib_paths, ppc>>

\* main.rs:296: fs::read_dir fails and the error is returned
ResolveFail ==
    /\ ppc = "resolve"
    /\ \E dir \in pending :
         /\ PathExists(dir) /\ PathIsDir(dir)
         /\ ~NativeNode(dir).readable
    /\ ppc' = "err"
    /\ UNCHANGED <<plugVars, pipeVars, host, crate_name, stdout, stderr, stream, lineNo, in_target_crate,
                   native_lib_paths, pending, native_lib_files>>

\* main.rs:320
ParseReturn ==
    /\ ppc = "resolve"
    /\ pending = {}
    /\ ppc' = "ok"
    /\ UNCHANGED <<plugVars, pipeVars, host, crate_name, stdout, stderr, stream, lineNo, in_target_crate,
                   native_lib_paths, pending, native_lib_files>>

ScanNext ==
    \/ ScanNextLine
    \/ ScanBadLine
    \/ NextStream
    \/ ScanDone
    \/ ResolveSkip
    \/ ResolveDir
    \/ ResolveFail
    \/ ParseReturn

SpecScan == ScanInit /\ [][ScanNext]_vars

\* ------------------------------------------------------------------------
\* Vocabulary of the claims about the scanner
\* ------------------------------------------------------------------------

\* both streams have been read to the end
ScanComplete == ppc \in {"resolve", "ok"}

\* the name that follows "--crate-name " on a line (empty when there is none)
UnitName(line) ==
    LET parts == Split(line, <<"--crate-name", " ">>)
    IN IF Len(parts) < 2 THEN <<>> ELSE CleanPath(parts[2])

\* the line starts the compilation unit of exactly this crate / of another one
StartsUnitOf(line, crate) == UnitName(line) = Normalize(crate)
StartsOtherUnit(line, crate) == UnitName(line) # <<>> /\ UnitName(line) # Normalize(crate)

\* line i lies in the target crate's own section: after the start of its
\* compilation unit and before the start of any other crate's unit
InOwnSection(st, i, crate) ==
    \E j \in 1..i :
        /\ StartsUnitOf(st[j], crate)
        /\ \A k \in (j + 1)..i : ~StartsOtherUnit(st[k], crate)

\* line i is the first line holding the target marker text, or a later one
InOpenSection(st, i, crate) ==
    \E j \in 1..i : Contains(st[j], CrateNameMarker(crate))

OwnSectionPaths(st, crate) ==
    UNION {MarkedPaths(st[i]) : i \in {k \in 1..Len(st) : InOwnSection(st, k, crate)}}

OpenSectionPaths(st, crate) ==
    UNION {MarkedPaths(st[i]) : i \in {k \in 1..Len(st) : InOpenSection(st, k, crate)}}

C2_Original ==
    ppc = "ok" =>
        /\ \A i, j \in 1..Len(native_lib_files) :
              CanonicalFile(native_lib_files[i]) = CanonicalFile(native_lib_files[j]) => i = j
        /\ \A i \in 1..Len(native_lib_files) :
              \E e \in DirEntries(NativeNode(native_lib_files[i].dir).real) :
                  /\ e.name = native_lib_files[i].name
                  /\ e.kind = "file"
                  /\ IsLibraryName(host, e.name)

\* ------------------------------------------------------------------------
\* parse_native_libraries as one function, for its callers
\* (the same loop bodies as the stepwise actions above)
\* ------------------------------------------------------------------------
RECURSIVE ScanStream(_, _, _, _)
\* main.rs:257-285 for one stream: the collected paths, or the decode error
ScanStream(st, crate, flag, paths) ==
    IF st = <<>> THEN [ok |-> TRUE, paths |-> paths]
    ELSE IF Contains(Head(st), <<InvalidByte>>) THEN [ok |-> FALSE, paths |-> paths]
    ELSE LET r == ScanLine(Head(st), crate, flag, paths)
         IN ScanStream(Tail(st), crate, r.in_target_crate, r.native_lib_paths)

RECURSIVE ResolveAll(_, _)
\* main.rs:294-318 over the directories in one order
ResolveAll(h, dirs) ==
    IF dirs = <<>> THEN <<>>
    ELSE (IF PathIsDir(Head(dirs))
          THEN (CHOOSE q \in Orders(LibraryFilesIn(h, Head(dirs))) : TRUE)
          ELSE <<>>) \o ResolveAll(h, Tail(dirs))

\* a directory that cannot be listed is passed over
ParseNativeLibrariesSkipUnreadable(out, err, crate, h) ==
    LET r1 == ScanStream(out, crate, FALSE, {})
        r2 == IF r1.ok THEN ScanStream(err, crate, FALSE, r1.paths) ELSE r1
    IN IF ~r2.ok
       THEN [ok |-> FALSE, files |-> <<>>]
       ELSE [ok |-> TRUE, files |-> ResolveAll(h, CHOOSE q \in Orders(r2.paths) : TRUE)]

\* main.rs:247-321
ParseNativeLibraries(out, err, crate, h) ==
    LET r1 == ScanStream(out, crate, FALSE, {})
        r2 == IF r1.ok THEN ScanStream(err, crate, FALSE, r1.paths) ELSE r1
        unreadable == \E d \in r2.paths : PathIsDir(d) /\ ~NativeNode(d).readable
    IN IF ~r2.ok \/ unreadable
       THEN [ok |-> FALSE, files |-> <<>>]
       ELSE [ok |-> TRUE, files |-> ResolveAll(h, CHOOSE q \in Orders(r2.paths) : TRUE)]

\* ------------------------------------------------------------------------
\* The project tree.  A path is a sequence of names, a name a sequence of
\* symbols; the tree maps each existing path to its node.
\* ------------------------------------------------------------------------
\* a node is a directory or a file; a file's content is told apart by the
\* crate and profile it was built for and by the run that wrote it
\* (0: before this run, 1: this run)
DirNode == [kind |-> "dir", crate |-> <<>>, profile |-> "", run |-> 0]
FileNode(crate, profile, run) ==
    [kind |-> "file", crate |-> crate, profile |-> profile, run |-> run]

IsPrefix(p, q) == Len(p) <= Len(q) /\ SubSeq(q, 1, Len(p)) = p
Exists(f, p) == p = <<>> \/ p \in DOMAIN f
IsDir(f, p)  == p = <<>> \/ (p \in DOMAIN f /\ f[p].kind = "dir")
IsFile(f, p) == p \in DOMAIN f /\ f[p].kind = "file"
Parent(p)    == SubSeq(p, 1, Len(p) - 1)
FileName(p)  == p[Len(p)]
Children(f, p) == {q \in DOMAIN f : Len(q) = Len(p) + 1 /\ IsPrefix(p, q)}
Put(f, p, node) == [q \in DOMAIN f \cup {p} |-> IF q = p THEN node ELSE f[q]]

\* fs::remove_dir_all; the caller drops the error of a missing directory
RemoveDirAll(f, p) ==
    IF IsDir(f, p) THEN [q \in {r \in DOMAIN f : ~IsPrefix(p, r)} |-> f[q]] ELSE f

\* fs::create_dir_all: fails when a component exists and is not a directory
CreateDirAll(f, p) ==
    LET prefixes == {SubSeq(p, 1, k) : k \in 1..Len(p)}
    IN IF \E q \in prefixes : IsFile(f, q)
       THEN [ok |-> FALSE, fs |-> f]
       ELSE [ok |-> TRUE,
             fs |-> [q \in DOMAIN f \cup prefixes |-> IF q \in DOMAIN f THEN f[q] ELSE DirNode]]

\* fs::copy: the destination file is created or overwritten; fails when the
\* destination is a directory or its parent is not one
CopyFile(f, src, dst) ==
    IF ~IsFile(f, src) \/ IsDir(f, dst) \/ ~IsDir(f, Parent(dst))
    THEN [ok |-> FALSE, fs |-> f]
    ELSE [ok |-> TRUE, fs |-> Put(f, dst, f[src])]

\* fs::read_dir: the entries in an order the platform chooses
ReadDir(f, p, rev) ==
    LET q == CHOOSE o \in Orders(Children(f, p)) : TRUE
    IN IF rev THEN [i \in 1..Len(q) |-> q[Len(q) + 1 - i]] ELSE q

RECURSIVE CopyDirRecursive(_, _, _, _), CopyEntries(_, _, _, _)
\* a directory without entries is passed over
CopyEntriesSkippingEmpty(f, entries, dest, rev) ==
    IF entries = <<>> THEN [ok |-> TRUE, fs |-> f]
    ELSE LET path == Head(entries)
             dest_path == Append(dest, FileName(path))
             r == IF IsDir(f, path)
                  THEN IF Children(f, path) = {} THEN [ok |-> TRUE, fs |-> f]
                       ELSE CopyDirRecursive(f, path, dest_path, rev)
                  ELSE CopyFile(f, path, dest_path)
         IN IF r.ok THEN CopyEntries(r.fs, Tail(entries), dest, rev) ELSE r

\* main.rs:484-494: the loop over the entries, stopping at the first error
CopyEntries(f, entries, dest, rev) ==
    IF entries = <<>> THEN [ok |-> TRUE, fs |-> f]
    ELSE LET path == Head(entries)
             dest_path == Append(dest, FileName(path))
             r == IF IsDir(f, path)
                  THEN CopyDirRecursive(f, path, dest_path, rev)
                  ELSE CopyFile(f, path, dest_path)
         IN IF r.ok THEN CopyEntries(r.fs, Tail(entries), dest, rev) ELSE r

\* the destination directory is emptied before the entries are copied
CopyDirRecursiveReplacing(f, source, dest, rev) ==
    LET cleared == RemoveDirAll(f, dest)
        made == CreateDirAll(cleared, dest)
    IN IF ~made.ok \/ ~IsDir(f, source)
       THEN [ok |-> FALSE, fs |-> made.fs]
       ELSE CopyEntries(made.fs, ReadDir(made.fs, source, rev), dest, rev)

\* main.rs:479-497
CopyDirRecursive(f, source, dest, rev) ==
    LET made == IF ~Exists(f, dest) THEN CreateDirAll(f, dest) ELSE [ok |-> TRUE, fs |-> f]
    IN IF ~made.ok \/ ~IsDir(f, source)
       THEN [ok |-> FALSE, fs |-> made.fs]
       ELSE CopyEntries(made.fs, ReadDir(made.fs, source, rev), dest, rev)

RECURSIVE CopyFormatEntries(_, _, _, _)
\* main.rs:456-466: the loop over the entries of one format directory
CopyFormatEntries(f, entries, dest_dir, rev) ==
    IF entries = <<>> THEN [ok |-> TRUE, fs |-> f]
    ELSE LET source_path == Head(entries)
             target == Append(dest_dir, FileName(source_path))
             r == IF IsFile(f, source_path) THEN CopyFile(f, source_path, target)
                  ELSE IF IsDir(f, source_path) THEN CopyDirRecursive(f, source_path, target, rev)
                  ELSE [ok |-> TRUE, fs |-> f]
         IN IF r.ok THEN CopyFormatEntries(r.fs, Tail(entries), dest_dir, rev) ELSE r

\* the format list of main.rs:453, in its order
NestedFormats == << <<"VST3">>, <<"CLAP">> >>

RECURSIVE CopyNested(_, _, _, _, _, _)
\* a format directory that does not exist is read all the same
CopyNestedStrict(f, formats, source_dir, dest_dir, profile, rev) ==
    IF formats = <<>> THEN [ok |-> TRUE, fs |-> f]
    ELSE LET format_source_dir == source_dir \o <<Head(formats), <<profile>>>>
             r == IF ~IsDir(f, format_source_dir) THEN [ok |-> FALSE, fs |-> f]
                  ELSE CopyFormatEntries(f, ReadDir(f, format_source_dir, rev), dest_dir, rev)
         IN IF r.ok THEN CopyNested(r.fs, Tail(formats), source_dir, dest_dir, profile, rev) ELSE r

\* main.rs:453-468
CopyNested(f, formats, source_dir, dest_dir, profile, rev) ==
    IF formats = <<>> THEN [ok |-> TRUE, fs |-> f]
    ELSE LET format_source_dir == source_dir \o <<Head(formats), <<profile>>>>
             r == IF ~Exists(f, format_source_dir) THEN [ok |-> TRUE, fs |-> f]
                  ELSE IF ~IsDir(f, format_source_dir) THEN [ok |-> FALSE, fs |-> f]
                  ELSE CopyFormatEntries(f, ReadDir(f, format_source_dir, rev), dest_dir, rev)
         IN IF r.ok THEN CopyNested(r.fs, Tail(formats), source_dir, dest_dir, profile, rev) ELSE r

\* main.rs:442-476
CopyPluginFiles(h, f, source_dir, dest_dir, profile, rev) ==
    LET made == CreateDirAll(f, dest_dir)
    IN IF ~made.ok THEN made
       ELSE IF h = "windows"
            THEN CopyNested(made.fs, NestedFormats, source_dir, dest_dir, profile, rev)
            ELSE CopyDirRecursive(made.fs, source_dir, dest_dir, rev)

\* ------------------------------------------------------------------------
\* build_plugin: paths under the project root
\* ------------------------------------------------------------------------
Profile(release) == IF release THEN "release" ELSE "debug"

CmakeBuildDir    == << <<"target">>, <<"cmake-build">> >>
CmakeAssetsDir   == << <<"target">>, <<"cmake-assets">> >>
CleanedPluginDir == << <<"target">>, <<"plugins">> >>
PluginOutputDir(profile) == << <<"target">>, <<profile>>, <<"plugins">> >>
CmakeDir         == << <<"xtask">>, <<"cmake">> >>
TemplateNames    == { <<"CMakeLists.txt">>, <<"clap_entry.cpp">>, <<"clap_entry.h">> }
UniversalDir     == << <<"target">>, <<"universal">> >>
X86Target        == "x86_64-apple-darwin"
ArmTarget        == "aarch64-apple-darwin"

\* main.rs:136-145
StaticLibPath(h, profile, normalized) ==
    << <<"target">>, <<profile>>,
       IF h = "windows" THEN normalized \o <<".lib">> ELSE <<"lib">> \o normalized \o <<".a">> >>

\* main.rs:390-400
ArchLibPath(target, profile, normalized) ==
    << <<"target">>, <<target>>, <<profile>>, <<"lib">> \o normalized \o <<".a">> >>

\* main.rs:403-407
UniversalLibPath(normalized) == Append(UniversalDir, <<"lib">> \o normalized \o <<".a">>)

\* Path::display
RECURSIVE Display(_)
Display(path) ==
    IF path = <<>> THEN <<>>
    ELSE IF Len(path) = 1 THEN Head(path)
    ELSE Head(path) \o <<"/">> \o Display(Tail(path))

\* the bytes of a stream of lines
RECURSIVE Bytes(_)
Bytes(st) == IF st = <<>> THEN <<>> ELSE Head(st) \o <<"\n">> \o Bytes(Tail(st))

\* String::from_utf8_lossy
FromUtf8Lossy(bytes) ==
    [i \in 1..Len(bytes) |-> IF bytes[i] = InvalidByte THEN "U+FFFD" ELSE bytes[i]]

\* ------------------------------------------------------------------------
\* The collaborators: what the toolchain prints and what the packaging
\* system leaves in its output directory
\* ------------------------------------------------------------------------
PlainLine == <<"Compiling", " ", "g", "-", "e">>

\* outputs of a build that reports success
BuildOutputs(crate) ==
    { [stdout |-> <<>>,
       stderr |-> <<RustcLine(crate, <<" ">> \o NativeMarker \o <<"p">>)>>],
      [stdout |-> <<RustcLine(crate, <<" ">> \o NativeMarker \o <<"q">>)>>,
       stderr |-> <<PlainLine>>],
      [stdout |-> <<>>,
       stderr |-> <<PlainLine>>],
      [stdout |-> <<>>,
       stderr |-> <<RustcLine(crate, <<" ">> \o NativeMarker \o <<"u">>)>>] }

\* stderr of a build that reports failure
FailureTexts == { <<<<"error">>>>, <<<<"error", InvalidByte>>>> }

Formats == { <<"CLAP">>, <<"VST3">> }

\* the bundle of one format, relative to the directory it is written to:
\* a CLAP plugin is a single file except on macOS, a VST3 plugin a directory
\* with an empty resource directory in it
Bundle(h, crate, profile, run, format) ==
    LET clap == crate \o <<".clap">>
        vst3 == crate \o <<".vst3">>
    IN IF format = <<"CLAP">>
       THEN IF h = "macos"
            THEN (<<clap>> :> DirNode) @@ (<<clap, <<"Contents">>>> :> FileNode(crate, profile, run))
            ELSE (<<clap>> :> FileNode(crate, profile, run))
       ELSE (<<vst3>> :> DirNode) @@ (<<vst3, <<"Contents">>>> :> FileNode(crate, profile, run))
            @@ (<<vst3, <<"Resources">>>> :> DirNode)

\* where the packaging system writes the bundle of a format: directly into
\* its output directory (FLAT), on Windows under <FORMAT>/<profile>/ (NESTED)
BundleDir(h, out, profile, format) ==
    IF h = "windows" THEN out \o <<format, <<profile>>>> ELSE out

WriteBundle(h, f, out, crate, profile, run, format) ==
    LET base == BundleDir(h, out, profile, format)
        tree == Bundle(h, crate, profile, run, format)
        made == CreateDirAll(f, base).fs
    IN [q \in DOMAIN made \cup {base \o r : r \in DOMAIN tree} |->
          IF \E r \in DOMAIN tree : q = base \o r
          THEN tree[CHOOSE r \in DOMAIN tree : q = base \o r]
          ELSE made[q]]

RECURSIVE WriteBundles(_, _, _, _, _, _, _)
\* the effect of a packaging build that produced the given formats
WriteBundles(h, f, out, crate, profile, run, produced) ==
    IF produced = {} THEN f
    ELSE LET format == CHOOSE x \in produced : TRUE
         IN WriteBundles(h, WriteBundle(h, f, out, crate, profile, run, format),
                         out, crate, profile, run, produced \ {format})

RECURSIVE WriteFiles(_, _, _)
\* files written by a tool, with the directories that lead to them
WriteFiles(f, paths, node) ==
    IF paths = {} THEN f
    ELSE LET path == CHOOSE x \in paths : TRUE
         IN WriteFiles(Put(CreateDirAll(f, Parent(path)).fs, path, node), paths \ {path}, node)

\* the project before any build: the packaging templates that are present
SourceTree(templates) ==
    [q \in { <<<<"xtask">>>>, CmakeDir, <<<<"target">>>> }
            \cup {Append(CmakeDir, t) : t \in templates} |->
        IF Len(q) = 3 THEN FileNode(<<"template">>, "", 0) ELSE DirNode]

NotesFile == FileNode(<<"notes">>, "prior", 0)

\* the tree an earlier successful run of this tool left behind, with a
\* hand-made file next to the plugins and the output of an older layout
AfterEarlierRun(h, templates, crate, profile) ==
    LET f1 == CreateDirAll(SourceTree(templates), CmakeBuildDir).fs
        f2 == Put(f1, Append(CmakeBuildDir, <<"CMakeCache.txt">>), FileNode(crate, profile, 0))
        f3 == WriteBundles(h, CreateDirAll(f2, CmakeAssetsDir).fs, CmakeAssetsDir,
                           crate, profile, 0, Formats)
        f4 == CopyPluginFiles(h, f3, CmakeAssetsDir, PluginOutputDir(profile), profile, FALSE).fs
        f5 == Put(f4, Append(PluginOutputDir(profile), <<"notes.txt">>), NotesFile)
        f6 == CreateDirAll(f5, CleanedPluginDir).fs
        f7 == Put(f6, Append(CleanedPluginDir, <<"notes.txt">>), NotesFile)
        libs == IF h = "macos"
                THEN { ArchLibPath(X86Target, profile, Normalize(crate)),
                       ArchLibPath(ArmTarget, profile, Normalize(crate)),
                       UniversalLibPath(Normalize(crate)) }
                ELSE { StaticLibPath(h, profile, Normalize(crate)) }
    IN WriteFiles(f7, libs, FileNode(crate, profile, 0))

\* a tree whose output directories hold an entry of the other kind under
\* the name of the CLAP bundle
WithClash(h, templates, crate) ==
    LET name == crate \o <<".clap">>
        node == IF h = "macos" THEN NotesFile ELSE DirNode
        f1 == CreateDirAll(SourceTree(templates), PluginOutputDir("debug")).fs
        f2 == CreateDirAll(f1, PluginOutputDir("release")).fs
    IN Put(Put(f2, Append(PluginOutputDir("debug"), name), node),
           Append(PluginOutputDir("release"), name), node)

TemplateChoices == {TemplateNames} \cup {TemplateNames \ {t} : t \in TemplateNames}

InitialTrees(h) ==
    UNION { { SourceTree(t),
              AfterEarlierRun(h, t, GainExample, "debug"),
              AfterEarlierRun(h, t, GainExample, "release"),
              WithClash(h, t, GainExample) } : t \in TemplateChoices }

BundleIds == {"org.free-audio.rust-gain-example"}

Requests ==
    [crate_name : CrateNames, release : BOOLEAN, bundle_id : BundleIds,
     clean : BOOLEAN, install : BOOLEAN]

\* ------------------------------------------------------------------------
\* build_plugin, one phase per step
\* ------------------------------------------------------------------------
Call(tool, args, status, out, err) ==
    [tool |-> tool, args |-> args, status |-> status, stdout |-> out, stderr |-> err]

LastCall == calls[Len(calls)]

IoError == <<"io error">>

Normalized == Normalize(request.crate_name)
RunProfile == Profile(request.release)

PipeInit ==
    /\ host \in Hosts
    /\ crate_name = <<>>
    /\ stdout = <<>>
    /\ stderr = <<>>
    /\ stream = 1
    /\ lineNo = 1
    /\ in_target_crate = FALSE
    /\ native_lib_paths = {}
    /\ pending = {}
    /\ native_lib_files = <<>>
    /\ ppc = "idle"
    /\ request \in Requests
    /\ pc = "start"
    /\ fs \in InitialTrees(host)
    /\ fs0 = fs
    /\ calls = <<>>
    /\ native_libraries = <<>>
    /\ arch_libs = {}
    /\ static_lib_file = <<>>
    /\ result = [ok |-> FALSE, message |-> <<>>]
    /\ FactoryIdle
    /\ GuiIdle

\* return Err(message)
Fail(message) ==
    /\ pc' = "done"
    /\ result' = [ok |-> FALSE, message |-> message]

\* main.rs:71-86
Clean ==
    /\ pc = "start"
    /\ fs' = IF request.clean
             THEN RemoveDirAll(RemoveDirAll(RemoveDirAll(fs, CmakeBuildDir), CmakeAssetsDir),
                               CleanedPluginDir)
             ELSE fs
    /\ pc' = IF host = "macos" THEN "rustup" ELSE "cargo"
    /\ UNCHANGED <<plugVars, host, scanVars, request, fs0, calls, native_libraries, arch_libs,
                   static_lib_file, result>>

\* cargo build [--release] [--target <target>] -p <crate>
CargoArgs(target) ==
    << <<"build">>, <<"--verbose">> >>
    \o (IF request.release THEN << <<"--release">> >> ELSE <<>>)
    \o (IF target = "" THEN <<>> ELSE << <<"--target">>, <<target>> >>)
    \o << <<"-p">>, request.crate_name >>

\* the exit status of the build is not looked at
CargoRunUnchecked(target, lib, prefix, next) ==
    \/ /\ calls' = Append(calls, Call("cargo", CargoArgs(target), "nospawn", <<>>, <<>>))
       /\ Fail(IoError)
       /\ UNCHANGED fs
    \/ \E err \in FailureTexts :
          /\ calls' = Append(calls, Call("cargo", CargoArgs(target), "fail", <<>>, err))
          /\ pc' = next
          /\ UNCHANGED <<fs, result>>
    \/ \E o \in BuildOutputs(request.crate_name), written \in BOOLEAN :
          /\ calls' = Append(calls, Call("cargo", CargoArgs(target), "ok", o.stdout, o.stderr))
          /\ fs' = IF written
                   THEN WriteFiles(fs, {lib}, FileNode(request.crate_name, RunProfile, 1))
                   ELSE fs
          /\ pc' = next
          /\ UNCHANGED result

\* a cargo invocation: it cannot be started, it fails, or it reports success
\* and has or has not written the static library
CargoRun(target, lib, prefix, next) ==
    \/ /\ calls' = Append(calls, Call("cargo", CargoArgs(target), "nospawn", <<>>, <<>>))
       /\ Fail(IoError)
       /\ UNCHANGED fs
    \/ \E err \in FailureTexts :
          /\ calls' = Append(calls, Call("cargo", CargoArgs(target), "fail", <<>>, err))
          /\ Fail(prefix \o FromUtf8Lossy(Bytes(err)))
          /\ UNCHANGED fs
    \/ \E o \in BuildOutputs(request.crate_name), written \in BOOLEAN :
          /\ calls' = Append(calls, Call("cargo", CargoArgs(target), "ok", o.stdout, o.stderr))
          /\ fs' = IF written
                   THEN WriteFiles(fs, {lib}, FileNode(request.crate_name, RunProfile, 1))
                   ELSE fs
          /\ pc' = next
          /\ UNCHANGED result

\* main.rs:98-130
CargoBuild ==
    /\ pc = "cargo"
    /\ CargoRun("", StaticLibPath(host, RunProfile, Normalized),
                <<"Failed to build static library: ">>, "parse")
    /\ UNCHANGED <<plugVars, host, scanVars, request, fs0, native_libraries, arch_libs, static_lib_file>>

\* main.rs:132-148
ParseSingle ==
    /\ pc = "parse"
    /\ LET r == ParseNativeLibraries(LastCall.stdout, LastCall.stderr, request.crate_name, host)
       IN /\ calls' = Append(calls, Call("scan", <<>>, IF r.ok THEN "ok" ELSE "fail",
                                         LastCall.stdout, LastCall.stderr))
          /\ IF r.ok
             THEN /\ native_libraries' = r.files
                  /\ static_lib_file' = StaticLibPath(host, RunProfile, Normalized)
                  /\ pc' = "checklib"
                  /\ UNCHANGED result
             ELSE /\ Fail(IoError)
                  /\ UNCHANGED <<native_libraries, static_lib_file>>
    /\ UNCHANGED <<plugVars, host, scanVars, request, fs, fs0, arch_libs>>

\* main.rs:332-337
RustupArgs == << <<"target">>, <<"add">>, <<X86Target>>, <<ArmTarget>> >>

\* the exit status of the target installation is not looked at
RustupTargetAddUnchecked ==
    /\ pc = "rustup"
    /\ \E status \in {"ok", "fail", "nospawn"} :
          /\ calls' = Append(calls, Call("rustup", RustupArgs, status, <<>>, <<>>))
          /\ IF status = "nospawn" THEN Fail(IoError)
             ELSE pc' = "build_x86" /\ UNCHANGED result
    /\ UNCHANGED <<plugVars, host, scanVars, request, fs, fs0, native_libraries, arch_libs,
                   static_lib_file>>

\* main.rs:330-348
RustupTargetAdd ==
    /\ pc = "rustup"
    /\ \E status \in {"ok", "fail", "nospawn"} :
          /\ calls' = Append(calls, Call("rustup", RustupArgs,
                                         status, <<>>, <<>>))
          /\ IF status = "ok" THEN pc' = "build_x86" /\ UNCHANGED result
             ELSE IF status = "fail" THEN Fail(<<"Failed to add required targets">>)
             ELSE Fail(IoError)
    /\ UNCHANGED <<plugVars, host, scanVars, request, fs, fs0, native_libraries, arch_libs,
                   static_lib_file>>

\* main.rs:351-374, called at 382 and 383
BuildForTarget ==
    /\ pc \in {"build_x86", "build_arm"}
    /\ LET target == IF pc = "build_x86" THEN X86Target ELSE ArmTarget
       IN CargoRun(target, ArchLibPath(target, RunProfile, Normalized),
                   <<"Failed to build for ", target, ": ">>,
                   IF pc = "build_x86" THEN "parse_x86" ELSE "parse_arm")
    /\ UNCHANGED <<plugVars, host, scanVars, request, fs0, native_libraries, arch_libs, static_lib_file>>

\* the result of the second build replaces that of the first
ParseForTargetLastOnly ==
    /\ pc \in {"parse_x86", "parse_arm"}
    /\ LET r == ParseNativeLibraries(LastCall.stdout, LastCall.stderr, request.crate_name, host)
           libs == {r.files[i] : i \in 1..Len(r.files)}
       IN /\ calls' = Append(calls, Call("scan", <<>>, IF r.ok THEN "ok" ELSE "fail",
                                         LastCall.stdout, LastCall.stderr))
          /\ IF ~r.ok
             THEN /\ Fail(IoError)
                  /\ UNCHANGED <<native_libraries, arch_libs>>
             ELSE /\ UNCHANGED result
                  /\ IF pc = "parse_x86"
                     THEN /\ arch_libs' = libs
                          /\ pc' = "build_arm"
                          /\ UNCHANGED native_libraries
                     ELSE /\ native_libraries' = (CHOOSE q \in Orders(libs) : TRUE)
                          /\ pc' = "lipo"
                          /\ UNCHANGED arch_libs
    /\ UNCHANGED <<plugVars, host, scanVars, request, fs, fs0, static_lib_file>>

\* main.rs:376-387
ParseForTarget ==
    /\ pc \in {"parse_x86", "parse_arm"}
    /\ LET r == ParseNativeLibraries(LastCall.stdout, LastCall.stderr, request.crate_name, host)
           libs == {r.files[i] : i \in 1..Len(r.files)}
       IN /\ calls' = Append(calls, Call("scan", <<>>, IF r.ok THEN "ok" ELSE "fail",
                                         LastCall.stdout, LastCall.stderr))
          /\ IF ~r.ok
             THEN /\ Fail(IoError)
                  /\ UNCHANGED <<native_libraries, arch_libs>>
             ELSE /\ UNCHANGED result
                  /\ IF pc = "parse_x86"
                     THEN /\ arch_libs' = libs
                          /\ pc' = "build_arm"
                          /\ UNCHANGED native_libraries
                     ELSE /\ native_libraries' = (CHOOSE q \in Orders(arch_libs \cup libs) : TRUE)
                          /\ pc' = "lipo"
                          /\ UNCHANGED arch_libs
    /\ UNCHANGED <<plugVars, host, scanVars, request, fs, fs0, static_lib_file>>

\* main.rs:414-421
LipoCreateArgs ==
    << <<"-create">>,
       Display(ArchLibPath(X86Target, RunProfile, Normalized)),
       Display(ArchLibPath(ArmTarget, RunProfile, Normalized)),
       <<"-output">>,
       Display(UniversalLibPath(Normalized)) >>

\* a failing merge is not treated as an error
LipoCreateUnchecked ==
    /\ pc = "lipo"
    /\ LET made == CreateDirAll(fs, UniversalDir)
       IN IF ~made.ok
          THEN /\ Fail(IoError)
               /\ UNCHANGED <<fs, calls>>
          ELSE \E status \in {"ok", "fail", "nospawn"} :
                 /\ status = "ok" =>
                       /\ Exists(fs, ArchLibPath(X86Target, RunProfile, Normalized))
                       /\ Exists(fs, ArchLibPath(ArmTarget, RunProfile, Normalized))
                 /\ calls' = Append(calls, Call("lipo", LipoCreateArgs, status, <<>>, <<>>))
                 /\ IF status = "ok"
                    THEN /\ fs' = Put(made.fs, UniversalLibPath(Normalized),
                                      FileNode(request.crate_name, RunProfile, 1))
                         /\ pc' = "lipo_info"
                         /\ UNCHANGED result
                    ELSE /\ fs' = made.fs
                         /\ IF status = "fail"
                            THEN pc' = "lipo_info" /\ UNCHANGED result
                            ELSE Fail(IoError)
    /\ UNCHANGED <<plugVars, host, scanVars, request, fs0, native_libraries, arch_libs, static_lib_file>>

\* main.rs:389-426; the merge tool succeeds only on two existing inputs
LipoCreate ==
    /\ pc = "lipo"
    /\ LET made == CreateDirAll(fs, UniversalDir)
       IN IF ~made.ok
          THEN /\ Fail(IoError)
               /\ UNCHANGED <<fs, calls>>
          ELSE \E status \in {"ok", "fail", "nospawn"} :
                 /\ status = "ok" =>
                       /\ Exists(fs, ArchLibPath(X86Target, RunProfile, Normalized))
                       /\ Exists(fs, ArchLibPath(ArmTarget, RunProfile, Normalized))
                 /\ calls' = Append(calls, Call("lipo", LipoCreateArgs, status, <<>>, <<>>))
                 /\ IF status = "ok"
                    THEN /\ fs' = Put(made.fs, UniversalLibPath(Normalized),
                                      FileNode(request.crate_name, RunProfile, 1))
                         /\ pc' = "lipo_info"
                         /\ UNCHANGED result
                    ELSE /\ fs' = made.fs
                         /\ IF status = "fail"
                            THEN Fail(<<"Failed to create universal binary with lipo">>)
                            ELSE Fail(IoError)
    /\ UNCHANGED <<plugVars, host, scanVars, request, fs0, native_libraries, arch_libs, static_lib_file>>

\* main.rs:428-438: the exit status of the info query is not an error
LipoInfo ==
    /\ pc = "lipo_info"
    /\ \E status \in {"ok", "fail", "nospawn"} :
          /\ calls' = Append(calls, Call("lipo", << <<"-info">>, Display(UniversalLibPath(Normalized)) >>,
                                         status, <<>>, <<>>))
          /\ IF status = "nospawn"
             THEN /\ Fail(IoError)
                  /\ UNCHANGED static_lib_file
             ELSE /\ static_lib_file' = UniversalLibPath(Normalized)
                  /\ pc' = "checklib"
                  /\ UNCHANGED result
    /\ UNCHANGED <<plugVars, host, scanVars, request, fs, fs0, native_libraries, arch_libs>>

\* main.rs:150-166
CheckStaticLib ==
    /\ pc = "checklib"
    /\ IF ~Exists(fs, static_lib_file)
       THEN /\ Fail(<<"Static library file not found: ">> \o Display(static_lib_file))
            /\ UNCHANGED fs
       ELSE LET made == CreateDirAll(fs, CmakeBuildDir)
            IN /\ fs' = made.fs
               /\ IF made.ok THEN pc' = "templates" /\ UNCHANGED result ELSE Fail(IoError)
    /\ UNCHANGED <<plugVars, host, scanVars, request, fs0, calls, native_libraries, arch_libs,
                   static_lib_file>>

\* only the build-description file is looked for
CheckTemplatesBuildFileOnly ==
    /\ pc = "templates"
    /\ IF ~Exists(fs, Append(CmakeDir, <<"CMakeLists.txt">>))
       THEN /\ Fail(<<"Required CMake files not found in xtask/cmake directory">>)
            /\ UNCHANGED fs
       ELSE LET assets == CreateDirAll(fs, CmakeAssetsDir)
                output == CreateDirAll(assets.fs, PluginOutputDir(RunProfile))
            IN IF ~assets.ok
               THEN fs' = assets.fs /\ Fail(IoError)
               ELSE /\ fs' = output.fs
                    /\ IF output.ok THEN pc' = "configure" /\ UNCHANGED result ELSE Fail(IoError)
    /\ UNCHANGED <<plugVars, host, scanVars, request, fs0, calls, native_libraries, arch_libs,
                   static_lib_file>>

\* main.rs:168-185
CheckTemplates ==
    /\ pc = "templates"
    /\ IF \E t \in TemplateNames : ~Exists(fs, Append(CmakeDir, t))
       THEN /\ Fail(<<"Required CMake files not found in xtask/cmake directory">>)
            /\ UNCHANGED fs
       ELSE LET assets == CreateDirAll(fs, CmakeAssetsDir)
                output == CreateDirAll(assets.fs, PluginOutputDir(RunProfile))
            IN IF ~assets.ok
               THEN fs' = assets.fs /\ Fail(IoError)
               ELSE /\ fs' = output.fs
                    /\ IF output.ok THEN pc' = "configure" /\ UNCHANGED result ELSE Fail(IoError)
    /\ UNCHANGED <<plugVars, host, scanVars, request, fs0, calls, native_libraries, arch_libs,
                   static_lib_file>>

\* [T]::join(";")
RECURSIVE Join(_, _)
Join(texts, sep) ==
    IF texts = <<>> THEN <<>>
    ELSE IF Len(texts) = 1 THEN Head(texts)
    ELSE Head(texts) \o <<sep>> \o Join(Tail(texts), sep)

\* the display of a native library file: its directory joined with its name
FileDisplay(file) == file.dir \o <<"/">> \o file.name

\* main.rs:190-215
CmakeArgs ==
    << <<"-S">>, Display(CmakeDir),
       <<"-B">>, Display(CmakeBuildDir),
       <<"-DPROJECT_NAME=">> \o request.crate_name,
       <<"-DSTATIC_LIB_FILE=">> \o Display(static_lib_file),
       <<"-DBUNDLE_ID=", request.bundle_id>>,
       <<"-DPLUGIN_OUTPUT_DIR=">> \o Display(CmakeAssetsDir),
       <<"-DINSTALL_PLUGINS_AFTER_BUILD=", IF request.install THEN "ON" ELSE "OFF">> >>
    \o (IF native_libraries # <<>>
        THEN << <<"-DNATIVE_LIBRARIES=">> \o
                Join([i \in 1..Len(native_libraries) |-> FileDisplay(native_libraries[i])], ";") >>
        ELSE <<>>)

\* the exit status of the configure phase is not looked at
CmakeConfigureUnchecked ==
    /\ pc = "configure"
    /\ \E status \in {"ok", "fail", "nospawn"} :
          /\ calls' = Append(calls, Call("cmake", CmakeArgs, status, <<>>, <<>>))
          /\ IF status = "nospawn"
             THEN UNCHANGED fs /\ Fail(IoError)
             ELSE /\ fs' = Put(fs, Append(CmakeBuildDir, <<"CMakeCache.txt">>),
                               FileNode(request.crate_name, RunProfile, 1))
                  /\ pc' = "cmake_build"
                  /\ UNCHANGED result
    /\ UNCHANGED <<plugVars, host, scanVars, request, fs0, native_libraries, arch_libs, static_lib_file>>

\* main.rs:187-221; a configure that succeeds leaves its cache in the build directory
CmakeConfigure ==
    /\ pc = "configure"
    /\ \E status \in {"ok", "fail", "nospawn"} :
          /\ calls' = Append(calls, Call("cmake", CmakeArgs, status, <<>>, <<>>))
          /\ IF status = "ok"
             THEN /\ fs' = Put(fs, Append(CmakeBuildDir, <<"CMakeCache.txt">>),
                               FileNode(request.crate_name, RunProfile, 1))
                  /\ pc' = "cmake_build"
                  /\ UNCHANGED result
             ELSE /\ UNCHANGED fs
                  /\ IF status = "fail" THEN Fail(<<"CMake configuration failed">>)
                     ELSE Fail(IoError)
    /\ UNCHANGED <<plugVars, host, scanVars, request, fs0, native_libraries, arch_libs, static_lib_file>>

\* main.rs:225-229
CmakeBuildArgs ==
    << <<"--build">>, Display(CmakeBuildDir), <<"--config">>,
       <<IF request.release THEN "Release" ELSE "Debug">> >>

\* main.rs:223-234; a build that succeeds has written the bundles of some
\* formats under the directory the configure step named
CmakeBuild ==
    /\ pc = "cmake_build"
    /\ \E status \in {"ok", "fail", "nospawn"} :
          /\ calls' = Append(calls, Call("cmake", CmakeBuildArgs, status, <<>>, <<>>))
          /\ IF status = "ok"
             THEN /\ \E produced \in SUBSET Formats :
                        fs' = WriteBundles(host, fs, CmakeAssetsDir, request.crate_name,
                                           RunProfile, 1, produced)
                  /\ pc' = "copy"
                  /\ UNCHANGED result
             ELSE /\ UNCHANGED fs
                  /\ IF status = "fail" THEN Fail(<<"Plugin build failed">>) ELSE Fail(IoError)
    /\ UNCHANGED <<plugVars, host, scanVars, request, fs0, native_libraries, arch_libs, static_lib_file>>

\* main.rs:236-243
CopyFiles ==
    /\ pc = "copy"
    /\ \E rev \in BOOLEAN :
          LET r == CopyPluginFiles(host, fs, CmakeAssetsDir, PluginOutputDir(RunProfile),
                                   RunProfile, rev)
          IN /\ fs' = r.fs
             /\ calls' = Append(calls, Call("copy", <<>>, IF r.ok THEN "ok" ELSE "fail",
                                            <<>>, <<>>))
             /\ IF r.ok
                THEN /\ pc' = "done"
                     /\ result' = [ok |-> TRUE, message |-> <<>>]
                ELSE Fail(IoError)
    /\ UNCHANGED <<plugVars, host, scanVars, request, fs0, native_libraries, arch_libs, static_lib_file>>

Next ==
    \/ Clean
    \/ CargoBuild
    \/ ParseSingle
    \/ RustupTargetAdd
    \/ BuildForTarget
    \/ ParseForTarget
    \/ LipoCreate
    \/ LipoInfo
    \/ CheckStaticLib
    \/ CheckTemplates
    \/ CmakeConfigure
    \/ CmakeBuild
    \/ CopyFiles

Spec == PipeInit /\ [][Next]_vars

\* ------------------------------------------------------------------------
\* Vocabulary of the claims about the pipeline
\* ------------------------------------------------------------------------
Profiles == {"debug", "release"}

\* the paths in and below a directory, the directory itself included
TreeAt(f, dir) == {q \in DOMAIN f : IsPrefix(dir, q)}

\* the paths of the final output directories
OutputPaths(f) == UNION {TreeAt(f, PluginOutputDir(profile)) : profile \in Profiles}

CallsOf(tool) == {i \in 1..Len(calls) : calls[i].tool = tool}
IsConfigure(i) == calls[i].tool = "cmake" /\ calls[i].args[1] = <<"-S">>
IsPackagingBuild(i) == calls[i].tool = "cmake" /\ calls[i].args[1] = <<"--build">>

\* the run has not started a toolchain step yet and is about to
BeforeFirstBuildStep == pc \in {"cargo", "rustup"}

\* C3 as stated: with clean=true the packaging build directory, the packaging
\* asset directory and the final output directory of the run are gone when
\* the first toolchain step is about to run.
C3_Original ==
    (request.clean /\ BeforeFirstBuildStep) =>
        /\ TreeAt(fs, CmakeBuildDir) = {}
        /\ TreeAt(fs, CmakeAssetsDir) = {}
        /\ TreeAt(fs, PluginOutputDir(RunProfile)) = {}

\* the files under the packaging output that the placer copies onto a path
\* of the final output directory
SourcesOf(h, q, profile) ==
    LET rel == SubSeq(q, Len(PluginOutputDir(profile)) + 1, Len(q))
    IN IF h = "windows"
       THEN {CmakeAssetsDir \o <<NestedFormats[i], <<profile>>>> \o rel : i \in 1..Len(NestedFormats)}
       ELSE {CmakeAssetsDir \o rel}

\* C4: a run with clean=false never removes a path from the final output
\* directories, at no step, and a file that was there before the run keeps
\* its content unless the run copied an artifact onto its path.
C4_KeepsOutput ==
    ~request.clean =>
        \A q \in OutputPaths(fs0) :
            /\ q \in DOMAIN fs
            /\ ( /\ IsFile(fs0, q)
                 /\ \A profile \in Profiles : \A src \in SourcesOf(host, q, profile) : ~IsFile(fs, src) )
               => fs[q] = fs0[q]

C4_OutputGrows == ~request.clean => OutputPaths(fs) \subseteq OutputPaths(fs')

C4_CleanFalseIsAdditive == [](C4_KeepsOutput) /\ [][C4_OutputGrows]_vars

\* a finished clean=false run that kept a hand-made file and overwrote an
\* artifact of an earlier run
C4_Witness ==
    /\ ~request.clean
    /\ pc = "done"
    /\ result.ok
    /\ LET notes == Append(PluginOutputDir(RunProfile), <<"notes.txt">>)
       IN notes \in DOMAIN fs0 /\ fs[notes] = fs0[notes]
    /\ \E q \in OutputPaths(fs0) : IsFile(fs0, q) /\ fs[q] # fs0[q]

\* the image under the destination of a path below a format directory
ImageOf(src, formatDir, dest) == dest \o SubSeq(src, Len(formatDir) + 1, Len(src))

FormatDir(format) == CmakeAssetsDir \o <<format, <<RunProfile>>>>

PlacerSucceeded == pc = "done" /\ result.ok

\* C5: under the NESTED layout, after the placer succeeded, every entry of an
\* existing format directory is in the destination root at the same relative
\* path with the same kind and content, nothing else was added to the
\* destination, and the placer fails only where an entry meets an entry of
\* the other kind in the destination, never for a format without directory.
C5_NestedPlacement ==
    host = "windows" =>
        /\ PlacerSucceeded =>
              LET dest == PluginOutputDir(RunProfile)
                  present == {format \in Formats : Exists(fs, FormatDir(format))}
                  images == UNION { {ImageOf(src, FormatDir(format), dest) :
                                        src \in TreeAt(fs, FormatDir(format)) \ {FormatDir(format)}} :
                                    format \in present }
              IN /\ \A format \in present :
                       \A src \in TreeAt(fs, FormatDir(format)) \ {FormatDir(format)} :
                          /\ ImageOf(src, FormatDir(format), dest) \in DOMAIN fs
                          /\ fs[ImageOf(src, FormatDir(format), dest)] = fs[src]
                 /\ TreeAt(fs, dest) \subseteq TreeAt(fs0, dest) \cup {dest} \cup images
        /\ (pc = "done" /\ calls # <<>> /\ LastCall.tool = "copy" /\ ~result.ok) =>
              \E format \in Formats :
                 \E src \in TreeAt(fs, FormatDir(format)) \ {FormatDir(format)} :
                    LET image == ImageOf(src, FormatDir(format), PluginOutputDir(RunProfile))
                    IN \/ IsFile(fs, src) /\ IsDir(fs, image)
                       \/ IsDir(fs, src) /\ IsFile(fs, image)

\* only CLAP/<profile>/<crate>.clap is present and exactly that file is in
\* the destination root
C5_Witness ==
    /\ host = "windows"
    /\ PlacerSucceeded
    /\ ~Exists(fs, FormatDir(<<"VST3">>))
    /\ Children(fs, FormatDir(<<"CLAP">>)) = {Append(FormatDir(<<"CLAP">>), request.crate_name \o <<".clap">>)}
    /\ TreeAt(fs, PluginOutputDir(RunProfile)) =
          { PluginOutputDir(RunProfile),
            Append(PluginOutputDir(RunProfile), request.crate_name \o <<".clap">>) }

\* C6: on a host that builds the universal binary, a failed target
\* installation ends the run with an error and is the only phase the run
\* ever started; nothing was placed.
C6_TargetInstallFailureAborts ==
    (host = "macos" /\ calls # <<>> /\ calls[1].status # "ok") =>
        /\ calls[1].tool = "rustup"
        /\ Len(calls) = 1
        /\ pc = "done"
        /\ ~result.ok
        /\ calls[1].status = "fail" => result.message = <<"Failed to add required targets">>
        /\ OutputPaths(fs) = OutputPaths(fs0)

C6_Witness ==
    /\ host = "macos"
    /\ pc = "done"
    /\ calls # <<>>
    /\ calls[1].tool = "rustup"
    /\ calls[1].status = "fail"

\* the text "Failed to build ..." that precedes the captured stderr
IsBuildFailurePrefix(prefix) ==
    \/ prefix = <<"Failed to build static library: ">>
    \/ \E target \in {X86Target, ArmTarget} : prefix = <<"Failed to build for ", target, ": ">>

\* C7: a toolchain build that exits with non-zero status is the last phase
\* of its run: the run has failed with a build-failure message that ends
\* with the stderr of that invocation, and no scan, merge, packaging or
\* placement phase follows it.
C7_BuildFailureAborts ==
    \A i \in CallsOf("cargo") :
        calls[i].status = "fail" =>
            /\ i = Len(calls)
            /\ pc = "done"
            /\ ~result.ok
            /\ \E n \in 1..3 :
                  /\ IsBuildFailurePrefix(SubSeq(result.message, 1, n))
                  /\ SubSeq(result.message, n + 1, Len(result.message))
                        = FromUtf8Lossy(Bytes(calls[i].stderr))

\* the second build of the universal path failed after the first succeeded
C7_Witness ==
    /\ host = "macos"
    /\ Len(calls) = 4
    /\ calls[2].tool = "cargo" /\ calls[2].status = "ok"
    /\ calls[4].tool = "cargo" /\ calls[4].status = "fail"
    /\ Contains(result.message, <<"error">>)

\* the static library a toolchain invocation is expected to write
ExpectedLib(i) ==
    IF \E k \in 1..Len(calls[i].args) : calls[i].args[k] = <<"--target">>
    THEN ArchLibPath(calls[i].args[(CHOOSE k \in 1..Len(calls[i].args) :
                                       calls[i].args[k] = <<"--target">>) + 1][1],
                     RunProfile, Normalized)
    ELSE StaticLibPath(host, RunProfile, Normalized)

IsArtifactNotFound(message) ==
    message # <<>> /\ message[1] = "Static library file not found: "

\* C8 as stated: when a toolchain invocation reported success and its static
\* library does not exist, the run fails with the artifact-not-found error
\* and starts no merge or packaging phase.
C8_Original ==
    pc = "done" =>
        \A i \in CallsOf("cargo") :
            (calls[i].status = "ok" /\ ~Exists(fs, ExpectedLib(i))) =>
                /\ ~result.ok
                /\ IsArtifactNotFound(result.message)
                /\ CallsOf("lipo") = {}
                /\ CallsOf("cmake") = {}

\* C9: every packaging build phase directly follows a configure phase that
\* exited with success and named the same build directory, and selects
\* Release exactly when release is set; the placer directly follows a build
\* phase that exited with success; a phase that did not exit with success is
\* the last phase of a failed run.
C9_TwoPhaseProtocol ==
    \A i \in 1..Len(calls) :
        /\ IsPackagingBuild(i) =>
              /\ i > 1
              /\ IsConfigure(i - 1)
              /\ calls[i - 1].status = "ok"
              /\ calls[i - 1].args[3] = <<"-B">>
              /\ calls[i].args[2] = calls[i - 1].args[4]
              /\ calls[i].args[3] = <<"--config">>
              /\ calls[i].args[4] = <<IF request.release THEN "Release" ELSE "Debug">>
        /\ calls[i].tool = "copy" =>
              /\ i > 1
              /\ IsPackagingBuild(i - 1)
              /\ calls[i - 1].status = "ok"
        /\ (calls[i].tool = "cmake" /\ calls[i].status # "ok") =>
              /\ i = Len(calls)
              /\ pc = "done"
              /\ ~result.ok
              /\ calls[i].status = "fail" =>
                    result.message = IF IsConfigure(i) THEN <<"CMake configuration failed">>
                                     ELSE <<"Plugin build failed">>

\* a release run went through configure, build and placement
C9_Witness ==
    /\ request.release
    /\ PlacerSucceeded
    /\ \E i \in 2..Len(calls) : IsPackagingBuild(i) /\ calls[i].args[4] = <<"Release">>

TemplateMissing == \E t \in TemplateNames : ~Exists(fs, Append(CmakeDir, t))

MissingTemplateError == <<"Required CMake files not found in xtask/cmake directory">>

\* C10 as stated: with a template file missing the run fails with the
\* configuration error and never invokes the packaging tool.
C10_Original ==
    TemplateMissing =>
        /\ CallsOf("cmake") = {}
        /\ pc = "done" => (~result.ok /\ result.message = MissingTemplateError)

\* C10 (amended): with a template file missing the packaging tool is never
\* invoked and nothing is placed; the run fails, with the configuration
\* error when it got as far as an existing static library, otherwise with
\* the error of the earlier phase that failed.
C10_MissingTemplateStopsPackaging ==
    TemplateMissing =>
        /\ CallsOf("cmake") = {}
        /\ CallsOf("copy") = {}
        /\ pc \notin {"configure", "cmake_build", "copy"}
        /\ pc = "done" =>
              /\ ~result.ok
              /\ (static_lib_file # <<>> /\ Exists(fs, static_lib_file))
                    <=> result.message = MissingTemplateError

C10_Witness ==
    /\ TemplateMissing
    /\ pc = "done"
    /\ result.message = MissingTemplateError

\* ------------------------------------------------------------------------
\* C11: the configuration surface of the configure invocation
\* ------------------------------------------------------------------------
\* the format names of the specification's BuildRequest
FormatNames == {"CLAP", "VST3", "AUV2"}

HasArg(i, arg) == \E k \in 1..Len(calls[i].args) : calls[i].args[k] = arg

\* some argument of the call names a plugin format
CarriesFormats(i) ==
    \E k \in 1..Len(calls[i].args) :
       \E n \in 1..Len(calls[i].args[k]) : calls[i].args[k][n] \in FormatNames

\* the arguments that start with the key of the native library list
NativeLibraryArgs(i) ==
    {k \in 1..Len(calls[i].args) :
        /\ calls[i].args[k] # <<>>
        /\ calls[i].args[k][1] = "-DNATIVE_LIBRARIES="}

\* project name, static library path, bundle id, output directory, install
\* flag, and the native libraries joined with semicolons exactly when there
\* are any
CarriesSurface(i) ==
    /\ HasArg(i, <<"-DPROJECT_NAME=">> \o request.crate_name)
    /\ HasArg(i, <<"-DSTATIC_LIB_FILE=">> \o Display(static_lib_file))
    /\ HasArg(i, <<"-DBUNDLE_ID=", request.bundle_id>>)
    /\ HasArg(i, <<"-DPLUGIN_OUTPUT_DIR=">> \o Display(CmakeAssetsDir))
    /\ HasArg(i, <<"-DINSTALL_PLUGINS_AFTER_BUILD=", "ON">>) <=> request.install
    /\ HasArg(i, <<"-DINSTALL_PLUGINS_AFTER_BUILD=", "OFF">>) <=> ~request.install
    /\ (NativeLibraryArgs(i) # {}) <=> (native_libraries # <<>>)
    /\ \A k \in NativeLibraryArgs(i) :
          calls[i].args[k] =
             <<"-DNATIVE_LIBRARIES=">> \o
             Join([n \in 1..Len(native_libraries) |-> FileDisplay(native_libraries[n])], ";")

\* C11 as stated: every configure invocation carries the project name, the
\* static library path, the bundle id, the output directory, the install flag
\* (ON exactly when install is set), the requested formats list, and the
\* native libraries joined with semicolons exactly when there are any.
C11_Original ==
    \A i \in CallsOf("cmake") :
       IsConfigure(i) => CarriesSurface(i) /\ CarriesFormats(i)

\* the part of C11 the code does meet: everything but the formats list
C11_SurfaceWithoutFormats ==
    \A i \in CallsOf("cmake") : IsConfigure(i) => CarriesSurface(i)

\* ------------------------------------------------------------------------
\* C12: failures of external steps and of the copy are fatal
\* ------------------------------------------------------------------------
IsMergeCreate(i) == calls[i].tool = "lipo" /\ calls[i].args[1] = <<"-create">>

\* target installation, a toolchain build, the merge create step, packaging
\* configure, packaging build, and the copy of the placer
IsFatalStep(i) ==
    \/ calls[i].tool \in {"rustup", "cargo", "cmake", "copy"}
    \/ IsMergeCreate(i)

IsExternalProcess(i) == calls[i].tool \in {"rustup", "cargo", "lipo", "cmake"}

\* the files of the final output directories, with their content
OutputFiles(f) == {<<p, f[p]>> : p \in {q \in OutputPaths(f) : IsFile(f, q)}}

FailedSteps == {i \in 1..Len(calls) : IsFatalStep(i) /\ calls[i].status # "ok"}

\* the steps a successful run has made, each with success
AllPhasesSucceeded ==
    /\ \A i \in 1..Len(calls) : IsFatalStep(i) \/ calls[i].tool = "scan" => calls[i].status = "ok"
    /\ IF host = "macos"
       THEN /\ Cardinality(CallsOf("rustup")) = 1
            /\ Cardinality(CallsOf("cargo")) = 2
            /\ \E i \in CallsOf("lipo") : IsMergeCreate(i)
       ELSE Cardinality(CallsOf("cargo")) = 1
    /\ \E i \in CallsOf("cmake") : IsConfigure(i)
    /\ \E i \in CallsOf("cmake") : IsPackagingBuild(i)
    /\ Cardinality(CallsOf("copy")) = 1

\* C12: a failing target installation, toolchain build, merge create step,
\* packaging configure, packaging build or copy ends the run with an error:
\* it is the last step of the run, no external process follows it, and unless
\* it is the copy itself no file of an output directory was written; no step
\* is invoked twice with the same arguments; and the run returns success only
\* if every phase succeeded.
C12_FailuresAreFatal ==
    /\ \A i \in FailedSteps :
          /\ i = Len(calls)
          /\ pc = "done"
          /\ ~result.ok
          /\ calls[i].tool # "copy" => OutputFiles(fs) = OutputFiles(fs0)
    /\ \A i, j \in 1..Len(calls) :
          /\ i # j
          /\ IsFatalStep(i) \/ IsExternalProcess(i)
          /\ calls[i].tool = calls[j].tool
          => calls[i].args # calls[j].args
    /\ result.ok => AllPhasesSucceeded
    /\ pc = "done" /\ AllPhasesSucceeded => result.ok

\* the merge create step has failed after a successful target installation
\* and two successful builds
C12_Witness ==
    /\ pc = "done"
    /\ Len(calls) > 3
    /\ IsMergeCreate(Len(calls))
    /\ calls[Len(calls)].status = "fail"
    /\ result.message = <<"Failed to create universal binary with lipo">>

\* ------------------------------------------------------------------------
\* C13: a search directory that cannot be listed
\* ------------------------------------------------------------------------
\* the paths the scanner collects from the output handed to scan call i
CollectedBy(i) ==
    LET r1 == ScanStream(calls[i].stdout, request.crate_name, FALSE, {})
        r2 == ScanStream(calls[i].stderr, request.crate_name, FALSE, r1.paths)
    IN IF r1.ok /\ r2.ok THEN r2.paths ELSE {}

Unreadable(dir) == PathExists(dir) /\ PathIsDir(dir) /\ ~NativeNode(dir).readable

\* C13: when a search directory the scanner collected cannot be listed,
\* parse_native_libraries returns the file-system error, the run ends with
\* that error at this step, and neither packaging phase nor the copy runs.
C13_UnreadableDirectoryAborts ==
    \A i \in CallsOf("scan") :
       (\E dir \in CollectedBy(i) : Unreadable(dir))
       => /\ calls[i].status = "fail"
          /\ i = Len(calls)
          /\ pc = "done"
          /\ result = [ok |-> FALSE, message |-> IoError]
          /\ CallsOf("cmake") = {}
          /\ CallsOf("copy") = {}

\* a build has succeeded and its output names the unreadable directory
C13_Witness ==
    /\ calls # <<>>
    /\ LastCall.tool = "scan"
    /\ <<"u">> \in CollectedBy(Len(calls))
    /\ calls[Len(calls) - 1].tool = "cargo"
    /\ calls[Len(calls) - 1].status = "ok"

\* ------------------------------------------------------------------------
\* C14: the scanner and the content of the streams
\* ------------------------------------------------------------------------
\* both streams have been read to their end
StreamsRead == stream = 2 /\ lineNo > Len(stderr)

\* C14 as stated: whatever bytes stdout and stderr hold, the scanner reads
\* both streams to their end without an error, so that an error of
\* parse_native_libraries can only come from the resolver; a line it cannot
\* use only contributes no path.
C14_Original ==
    /\ ppc = "err" => StreamsRead
    /\ ppc \in {"resolve", "ok", "err"} => native_lib_paths \subseteq OpenSectionPaths(stdout, crate_name)
                                                  \cup OpenSectionPaths(stderr, crate_name)

\* ------------------------------------------------------------------------
\* C15: the output directory and the profile
\* ------------------------------------------------------------------------
\* the artifacts in the output directory of a profile: the files a packaging
\* run has produced for some crate
ArtifactsOf(f, profile) ==
    {q \in TreeAt(f, PluginOutputDir(profile)) : IsFile(f, q) /\ f[q].crate \in CrateNames}

\* every artifact in the output directory of a profile was produced by a
\* packaging run made with that profile
ProfileScoped(f) ==
    \A profile \in Profiles : \A q \in ArtifactsOf(f, profile) : f[q].profile = profile

OtherProfile == IF RunProfile = "debug" THEN "release" ELSE "debug"

\* C15 as stated: a clean=false run that starts from output directories
\* holding only artifacts of their own profile leaves them so, and it changes
\* nothing under the output directory of the other profile.
C15_Original ==
    ~request.clean /\ ProfileScoped(fs0) =>
        /\ ProfileScoped(fs)
        /\ TreeAt(fs, PluginOutputDir(OtherProfile)) = TreeAt(fs0, PluginOutputDir(OtherProfile))
        /\ \A q \in TreeAt(fs, PluginOutputDir(OtherProfile)) : fs[q] = fs0[q]

\* ------------------------------------------------------------------------
\* C18: the flag within one stream
\* ------------------------------------------------------------------------
\* the lines of the current stream the scanner has gone through
LinesRead == {j \in 1..Len(CurrentStream) : j < lineNo}

\* the flag is set exactly when a line read so far in this stream holds the
\* target marker
FlagTracksMarker ==
    ppc = "scan" =>
        in_target_crate =
            (\E j \in LinesRead : Contains(CurrentStream[j], CrateNameMarker(crate_name)))

\* the paths of the markers on the marker line and on every later line read
\* so far are in the collected set (those that pass the existence test)
CollectsFromMarkerLineOn ==
    ppc = "scan" =>
        \A i \in LinesRead :
            InOpenSection(CurrentStream, i, crate_name)
            => {p \in MarkedPaths(CurrentStream[i]) : PathExists(p)} \subseteq native_lib_paths

\* no step within a stream sets the flag back
FlagStaysSet == (stream' = stream /\ in_target_crate) => in_target_crate'

\* C18: within one stream the flag is false until the first line that
\* holds the target marker, true from that line on, and no later line of the
\* stream, a line of another crate's compilation unit included, clears it;
\* the markers on the marker line and on all later lines are collected.
C18_FlagIsMonotonic ==
    [](FlagTracksMarker /\ CollectsFromMarkerLineOn) /\ [][FlagStaysSet]_vars

\* the second line of stdout starts another crate's unit, the flag is still
\* set after it and its search path was collected
C18_Witness ==
    /\ ppc = "scan"
    /\ stream = 1
    /\ lineNo = 3
    /\ Contains(stdout[1], CrateNameMarker(crate_name))
    /\ StartsOtherUnit(stdout[2], crate_name)
    /\ ~Contains(stdout[2], CrateNameMarker(crate_name))
    /\ in_target_crate
    /\ MarkedPaths(stdout[2]) # {}
    /\ MarkedPaths(stdout[2]) \subseteq native_lib_paths

\* ------------------------------------------------------------------------
\* C19: the two streams
\* ------------------------------------------------------------------------
\* what the scanner yields for one stream on its own
YieldOf(st) == ScanStream(st, crate_name, FALSE, {}).paths

\* C19: the scan of each stream starts with the flag false, and once both
\* streams are read the collected set is the union of what each stream yields
\* on its own, which is also what scanning stderr before stdout yields.
C19_StreamsAreIndependent ==
    /\ ppc = "scan" /\ lineNo = 1 => ~in_target_crate
    /\ ppc = "scan" /\ stream = 2 =>
          \A p \in native_lib_paths \ YieldOf(stdout) :
              \E i \in LinesRead : InOpenSection(stderr, i, crate_name) /\ p \in MarkedPaths(stderr[i])
    /\ ScanComplete =>
          /\ native_lib_paths = YieldOf(stdout) \cup YieldOf(stderr)
          /\ native_lib_paths =
                ScanStream(stdout, crate_name, FALSE,
                           ScanStream(stderr, crate_name, FALSE, {}).paths).paths

\* stdout holds the target marker, stderr a search path without it: the path
\* of stderr is not collected
C19_Witness ==
    /\ ScanComplete
    /\ \E i \in 1..Len(stdout) : Contains(stdout[i], CrateNameMarker(crate_name))
    /\ ~\E i \in 1..Len(stderr) : Contains(stderr[i], CrateNameMarker(crate_name))
    /\ \E i \in 1..Len(stderr) : \E p \in MarkedPaths(stderr[i]) : PathExists(p) /\ p \notin native_lib_paths

\* ------------------------------------------------------------------------
\* C20: what the scanner keeps
\* ------------------------------------------------------------------------
\* C20 as stated: every member of the collected search-path set is an existing
\* directory; a token that names a regular file, a path that does not exist
\* or the empty text is never a member.
C20_Original ==
    \A p \in native_lib_paths : PathExists(p) /\ PathIsDir(p) /\ p # <<>>

\* ------------------------------------------------------------------------
\* The build tool is not running while a host has a plugin loaded
\* ------------------------------------------------------------------------
ScanIdle ==
    /\ crate_name = <<>>
    /\ stdout = <<>>
    /\ stderr = <<>>
    /\ stream = 1
    /\ lineNo = 1
    /\ in_target_crate = FALSE
    /\ native_lib_paths = {}
    /\ pending = {}
    /\ native_lib_files = <<>>
    /\ ppc = "idle"

PipeIdle ==
    /\ request = [crate_name |-> <<>>, release |-> FALSE, bundle_id |-> "", clean |-> FALSE,
                  install |-> FALSE]
    /\ pc = "idle"
    /\ fs = <<>>
    /\ fs0 = <<>>
    /\ calls = <<>>
    /\ native_libraries = <<>>
    /\ arch_libs = {}
    /\ static_lib_file = <<>>
    /\ result = [ok |-> FALSE, message |-> <<>>]

\* ------------------------------------------------------------------------
\* Numbers of the plugins: the f32 / f64 values the models use are ratios
\* of small integers with a power of two as denominator, which the floating
\* point types represent exactly together with their products and quotients
\* ------------------------------------------------------------------------
RECURSIVE Gcd(_, _)
Gcd(a, b) == IF b = 0 THEN a ELSE Gcd(b, a % b)

Rat(n, d) == LET g == Gcd(n, d) IN [num |-> n \div g, den |-> d \div g]

RatMul(a, b) == Rat(a.num * b.num, a.den * b.den)
RatDiv(a, b) == Rat(a.num * b.den, a.den * b.num)
RatLess(a, b) == a.num * b.den < b.num * a.den

\* Option<T>
None == [some |-> FALSE]
Some(v) == [some |-> TRUE, value |-> v]

\* ------------------------------------------------------------------------
\* The gain example: GainPluginFactory (plugins/gain-example/src/lib.rs)
\* ------------------------------------------------------------------------
VST3_VENDOR == "free-audio"
AU_ID_HALVER == "Ghlv"
AU_ID_DOUBLER == "Gdbl"

\* PluginDescriptor::new(id, name).with_features([AUDIO_EFFECT])
PluginDescriptor(id, name) == [id |-> id, name |-> name, features |-> {"audio-effect"}]

\* PluginInfoAsVST3::new(vendor, None, None)
PluginInfoAsVST3(vendor) == [vendor |-> vendor]

\* PluginInfoAsAUv2::new(au_type, au_subt)
PluginInfoAsAUv2(au_type, au_subt) == [au_type |-> au_type, au_subt |-> au_subt]

\* the tuple struct PluginInfo: fields 0, 1, 2
PluginInfo(descriptor, vst3, auv2) == <<descriptor, vst3, auv2>>

\* GainPluginFactory::new
GainPluginFactoryNew ==
    [ info_halver |->
        PluginInfo(PluginDescriptor("free-audio.clap.rust-gain-example.halver", "Gain Halver"),
                   PluginInfoAsVST3(VST3_VENDOR),
                   PluginInfoAsAUv2("aufx", AU_ID_HALVER)),
      info_doubler |->
        PluginInfo(PluginDescriptor("free-audio.clap.rust-gain-example.doubler", "Gain Doubler"),
                   PluginInfoAsVST3(VST3_VENDOR),
                   PluginInfoAsAUv2("aufx", AU_ID_DOUBLER)) ]

plugin_count(self) == 2

plugin_descriptor(self, index) ==
    CASE index = 0 -> Some(self.info_halver[1])
      [] index = 1 -> Some(self.info_doubler[1])
      [] OTHER     -> None

\* GainPluginMainThread::create(host, gain_factor)
GainPluginMainThread(gain_factor) == [factor |-> gain_factor]

\* PluginInstance::new::<GainPlugin>(host_info, descriptor, .., main thread)
PluginInstance(descriptor, main_thread) ==
    [descriptor |-> descriptor, main_thread |-> main_thread]

create_plugin(self, plugin_id) ==
    IF plugin_id = self.info_halver[1].id
    THEN Some(PluginInstance(self.info_halver[1], GainPluginMainThread(Rat(1, 2))))
    ELSE IF plugin_id = self.info_doubler[1].id
    THEN Some(PluginInstance(self.info_doubler[1], GainPluginMainThread(Rat(2, 1))))
    ELSE None

get_vst3_info(self, index) ==
    CASE index = 0 -> Some(self.info_halver[2])
      [] index = 1 -> Some(self.info_doubler[2])
      [] OTHER     -> None

\* the entries of the two plugins are exchanged
get_auv2_info_exchanged(self, index) ==
    CASE index = 0 -> Some(self.info_doubler[3])
      [] index = 1 -> Some(self.info_halver[3])
      [] OTHER     -> None

get_auv2_info(self, index) ==
    CASE index = 0 -> Some(self.info_halver[3])
      [] index = 1 -> Some(self.info_doubler[3])
      [] OTHER     -> None

\* what a host passes in: an index, a plugin id
Indices == 0..MaxIndex

PluginIds ==
    { "free-audio.clap.rust-gain-example.halver",
      "free-audio.clap.rust-gain-example.doubler",
      "free-audio.clap.rust-gain-example",
      "free-audio.clap.rust-gain-example.halver.",
      "Gain Halver",
      "" }

\* a call of the host: the operation, its argument and what it returned
Answer(op, arg, ret) == [op |-> op, arg |-> arg, ret |-> ret]
\* a call without an argument
NoArg == [nothing |-> TRUE]

\* the entry has constructed the factory, the host has not called it yet
FactoryInit ==
    /\ host = "linux"
    /\ ScanIdle
    /\ PipeIdle
    /\ GuiIdle
    /\ factory = GainPluginFactoryNew
    /\ answer = Answer("new", NoArg, None)
    /\ instances = <<>>

CallPluginCount ==
    /\ answer' = Answer("plugin_count", NoArg, [count |-> plugin_count(factory)])
    /\ UNCHANGED <<host, scanVars, pipeVars, guiVars, factory, instances>>

CallPluginDescriptor ==
    /\ \E index \in Indices :
          answer' = Answer("plugin_descriptor", [index |-> index], plugin_descriptor(factory, index))
    /\ UNCHANGED <<host, scanVars, pipeVars, guiVars, factory, instances>>

CallGetVst3Info ==
    /\ \E index \in Indices :
          answer' = Answer("get_vst3_info", [index |-> index], get_vst3_info(factory, index))
    /\ UNCHANGED <<host, scanVars, pipeVars, guiVars, factory, instances>>

CallGetAuv2Info ==
    /\ \E index \in Indices :
          answer' = Answer("get_auv2_info", [index |-> index], get_auv2_info(factory, index))
    /\ UNCHANGED <<host, scanVars, pipeVars, guiVars, factory, instances>>

\* the host keeps the instance it was given
CallCreatePlugin ==
    /\ Len(instances) < MaxInstances
    /\ \E plugin_id \in PluginIds :
          LET ret == create_plugin(factory, plugin_id)
          IN /\ answer' = Answer("create_plugin", [plugin_id |-> plugin_id], ret)
             /\ instances' = IF ret.some THEN Append(instances, ret.value) ELSE instances
    /\ UNCHANGED <<host, scanVars, pipeVars, guiVars, factory>>

FactoryNext ==
    \/ CallPluginCount
    \/ CallPluginDescriptor
    \/ CallGetVst3Info
    \/ CallGetAuv2Info
    \/ CallCreatePlugin

SpecFactory == FactoryInit /\ [][FactoryNext]_vars

\* ------------------------------------------------------------------------
\* C16: the three views of the factory
\* ------------------------------------------------------------------------
HalverId == "free-audio.clap.rust-gain-example.halver"
DoublerId == "free-audio.clap.rust-gain-example.doubler"

IndexedViews == {"plugin_descriptor", "get_vst3_info", "get_auv2_info"}

\* the ids of the descriptors plugin_descriptor hands out
DescriptorIds ==
    {plugin_descriptor(factory, i).value.id : i \in {k \in Indices : plugin_descriptor(factory, k).some}}

\* the gain factor that belongs to a plugin id
FactorOf(id) == IF id = HalverId THEN Rat(1, 2) ELSE Rat(2, 1)

\* C16: plugin_count is 2; plugin_descriptor, get_vst3_info and get_auv2_info
\* return a value exactly for the indices below plugin_count, the halver's at
\* index 0 and the doubler's at index 1; create_plugin returns an instance
\* exactly for the id of a descriptor that plugin_descriptor returns, with
\* that descriptor and with the gain factor 0.5 for the halver and 2.0 for
\* the doubler.
C16_FactoryViewsAgree ==
    /\ answer.op = "plugin_count" => answer.ret.count = 2
    /\ answer.op \in IndexedViews => (answer.ret.some <=> answer.arg.index < plugin_count(factory))
    /\ answer.op = "plugin_descriptor" /\ answer.ret.some =>
          /\ answer.arg.index = 0 => answer.ret.value.id = HalverId /\ answer.ret.value.name = "Gain Halver"
          /\ answer.arg.index = 1 => answer.ret.value.id = DoublerId /\ answer.ret.value.name = "Gain Doubler"
    /\ answer.op = "get_vst3_info" /\ answer.ret.some =>
          /\ answer.arg.index = 0 => answer.ret.value = factory.info_halver[2]
          /\ answer.arg.index = 1 => answer.ret.value = factory.info_doubler[2]
    /\ answer.op = "get_auv2_info" /\ answer.ret.some =>
          /\ answer.arg.index = 0 => answer.ret.value = PluginInfoAsAUv2("aufx", AU_ID_HALVER)
          /\ answer.arg.index = 1 => answer.ret.value = PluginInfoAsAUv2("aufx", AU_ID_DOUBLER)
    /\ answer.op = "create_plugin" =>
          /\ answer.ret.some <=> answer.arg.plugin_id \in DescriptorIds
          /\ answer.ret.some => answer.ret.value.descriptor.id = answer.arg.plugin_id
    /\ DescriptorIds = {HalverId, DoublerId}
    /\ \A i \in 1..Len(instances) :
          /\ instances[i].descriptor.id \in DescriptorIds
          /\ instances[i].main_thread.factor = FactorOf(instances[i].descriptor.id)

\* the host has created the doubler after the halver and was last refused an
\* instance for an id that no descriptor has
C16_Witness ==
    /\ Len(instances) = 2
    /\ instances[1].main_thread.factor = Rat(1, 2)
    /\ instances[2].main_thread.factor = Rat(2, 1)
    /\ answer.op = "create_plugin"
    /\ ~answer.ret.some

\* ------------------------------------------------------------------------
\* The web-UI example: the GUI extension of WebUiPluginMainThread
\* (plugins/web-ui-example/src/gui/mod.rs, gui/dpi.rs, main_thread.rs)
\* ------------------------------------------------------------------------
LogicalSize(width, height) == [width |-> Rat(width, 1), height |-> Rat(height, 1)]

DEFAULT_GUI_SIZE == LogicalSize(400, 300)
MIN_GUI_SIZE == LogicalSize(200, 100)
MAX_GUI_SIZE == LogicalSize(600, 600)

\* GuiSize: width and height as u32, in the host's unit
GuiSize(width, height) == [width |-> width, height |-> height]

\* the GUI API of the platform counts in logical pixels (Cocoa) or in
\* physical pixels (Win32, X11)
host_uses_logical_size == host = "macos"

\* a non-negative f64 as u32: the fraction is dropped (the values of the
\* model stay far below the point where the cast saturates)
AsU32(x) == x.num \div x.den

\* f64::clamp
Clamp(x, min, max) == IF RatLess(x, min) THEN min ELSE IF RatLess(max, x) THEN max ELSE x

\* GuiSizeExtensions::to_logical
to_logical(size, scale) ==
    IF host_uses_logical_size
    THEN [width |-> Rat(size.width, 1), height |-> Rat(size.height, 1)]
    ELSE [width |-> RatDiv(Rat(size.width, 1), scale),
          height |-> RatDiv(Rat(size.height, 1), scale)]

\* LogicalSizeExtensions::to_host_size
to_host_size(size, scale) ==
    IF host_uses_logical_size
    THEN GuiSize(AsU32(size.width), AsU32(size.height))
    ELSE GuiSize(AsU32(RatMul(size.width, scale)), AsU32(RatMul(size.height, scale)))

\* what a host passes in: scale factors and sizes in its own unit
Scales == {Rat(1, 2), Rat(1, 1), Rat(2, 1)}
GuiSizes == {GuiSize(w, h) : w \in {0, 150, 400, 700, 1300}, h \in {0, 150, 400, 700, 1300}}

\* WebUiPluginMainThread::create
GuiInit ==
    /\ host \in Hosts
    /\ ScanIdle
    /\ PipeIdle
    /\ FactoryIdle
    /\ web_view = FALSE
    /\ scale_factor = Rat(1, 1)
    /\ gui_size = DEFAULT_GUI_SIZE
    /\ gui_answer = Answer("create", NoArg, None)

set_scale ==
    /\ \E scale \in Scales :
          /\ scale_factor' = scale
          /\ gui_answer' = Answer("set_scale", [scale |-> scale], [ok |-> TRUE])
    /\ UNCHANGED <<host, scanVars, pipeVars, factoryVars, gui_size, web_view>>

get_size ==
    /\ gui_answer' = Answer("get_size", NoArg, Some(to_host_size(gui_size, scale_factor)))
    /\ UNCHANGED <<host, scanVars, pipeVars, factoryVars, scale_factor, gui_size, web_view>>

\* the size after the two clamps of adjust_size, in logical pixels
Constrained(size) ==
    [width  |-> Clamp(size.width, MIN_GUI_SIZE.width, MAX_GUI_SIZE.width),
     height |-> Clamp(size.height, MIN_GUI_SIZE.height, MAX_GUI_SIZE.height)]

adjust_size ==
    /\ \E size \in GuiSizes :
          gui_answer' =
              Answer("adjust_size", [size |-> size],
                     Some(to_host_size(Constrained(to_logical(size, scale_factor)), scale_factor)))
    /\ UNCHANGED <<host, scanVars, pipeVars, factoryVars, scale_factor, gui_size, web_view>>

\* the size is stored first; resizing an existing web view may fail
set_size ==
    /\ \E size \in GuiSizes :
          /\ gui_size' = to_logical(size, scale_factor)
          /\ \E ok \in BOOLEAN :
                /\ ~ok => web_view
                /\ gui_answer' = Answer("set_size", [size |-> size], [ok |-> ok])
    /\ UNCHANGED <<host, scanVars, pipeVars, factoryVars, scale_factor, web_view>>

\* the web view is created with the stored size, unless building it fails
set_parent ==
    /\ \E ok \in BOOLEAN :
          /\ web_view' = IF ok THEN TRUE ELSE web_view
          /\ gui_answer' = Answer("set_parent", NoArg, [ok |-> ok])
    /\ UNCHANGED <<host, scanVars, pipeVars, factoryVars, scale_factor, gui_size>>

destroy ==
    /\ web_view' = FALSE
    /\ gui_answer' = Answer("destroy", NoArg, [ok |-> TRUE])
    /\ UNCHANGED <<host, scanVars, pipeVars, factoryVars, scale_factor, gui_size>>

GuiNext ==
    \/ set_scale
    \/ get_size
    \/ adjust_size
    \/ set_size
    \/ set_parent
    \/ destroy

SpecGui == GuiInit /\ [][GuiNext]_vars

\* ------------------------------------------------------------------------
\* C17: the bounds of the GUI size
\* ------------------------------------------------------------------------
InGuiBounds(size) ==
    /\ ~RatLess(size.width, MIN_GUI_SIZE.width)
    /\ ~RatLess(MAX_GUI_SIZE.width, size.width)
    /\ ~RatLess(size.height, MIN_GUI_SIZE.height)
    /\ ~RatLess(MAX_GUI_SIZE.height, size.height)

\* what adjust_size returns is, in logical pixels, within the bounds
AdjustedInBounds ==
    gui_answer.op = "adjust_size" => InGuiBounds(to_logical(gui_answer.ret.value, scale_factor))

\* C17 as stated: from creation on, after any calls of set_scale, adjust_size,
\* set_size and get_size, the stored gui_size is at least 200x100 and at most
\* 600x600 logical pixels, and adjust_size returns a size within these bounds
\* for every proposed size.
C17_Original == InGuiBounds(gui_size) /\ AdjustedInBounds

\* ------------------------------------------------------------------------
\* C21: the FLAT placement
\* ------------------------------------------------------------------------
\* the nodes in and below a directory, by their path relative to it
Subtree(f, dir) ==
    [rel \in {SubSeq(q, Len(dir) + 1, Len(q)) : q \in TreeAt(f, dir)} |-> f[dir \o rel]]

FlatHost == host # "windows"

\* after a successful placement the destination holds the whole source tree
CopiedFaithfully ==
    (FlatHost /\ PlacerSucceeded) =>
        /\ IsDir(fs, PluginOutputDir(RunProfile))
        /\ \A q \in TreeAt(fs, CmakeAssetsDir) :
              LET image == ImageOf(q, CmakeAssetsDir, PluginOutputDir(RunProfile))
              IN /\ image \in DOMAIN fs
                 /\ fs[image] = fs[q]

\* the step of a successful placement leaves the source tree as it was
SourceUntouched ==
    (FlatHost /\ pc = "copy" /\ pc' = "done" /\ result'.ok) =>
        Subtree(fs', CmakeAssetsDir) = Subtree(fs, CmakeAssetsDir)

\* C21: under the FLAT layout, after copy_plugin_files succeeded, every file
\* under the source directory is at the same relative path under the
\* destination with the source's content, every directory of the source,
\* empty ones and the root included, is a directory of the destination, and
\* the copy left the source tree unchanged.
C21_FlatCopyIsFaithful == [](CopiedFaithfully) /\ [][SourceUntouched]_vars

\* a successful placement into a destination that did not exist before the
\* run, of a source with a file and an empty directory
C21_Witness ==
    /\ FlatHost
    /\ PlacerSucceeded
    /\ ~Exists(fs0, PluginOutputDir(RunProfile))
    /\ \E q \in TreeAt(fs, CmakeAssetsDir) :
          /\ IsDir(fs, q)
          /\ Children(fs, q) = {}
          /\ IsDir(fs, ImageOf(q, CmakeAssetsDir, PluginOutputDir(RunProfile)))
    /\ \E q \in TreeAt(fs, CmakeAssetsDir) :
          /\ IsFile(fs, q)
          /\ IsFile(fs, ImageOf(q, CmakeAssetsDir, PluginOutputDir(RunProfile)))

\* ------------------------------------------------------------------------
\* C22: the order of the steps on the universal path
\* ------------------------------------------------------------------------
UniversalHost == host = "macos"

\* the steps of the universal path up to the merge, by position in the log
UniversalSteps == <<"rustup", "cargo", "scan", "cargo", "scan", "lipo">>

UniversalLength == IF Len(calls) < Len(UniversalSteps) THEN Len(calls) ELSE Len(UniversalSteps)

TargetOfBuild(i) == IF i = 2 THEN X86Target ELSE ArmTarget

\* what the scanner returns for the output of the build logged at i
ResultOfBuild(i) ==
    LET r == ParseNativeLibraries(calls[i].stdout, calls[i].stderr, request.crate_name, host)
    IN {r.files[k] : k \in 1..Len(r.files)}

\* installation, x86_64 build, aarch64 build, merge, each after the success
\* of the step before it
StepsInOrder ==
    \A i \in 1..UniversalLength :
       /\ calls[i].tool = UniversalSteps[i]
       /\ i > 1 => calls[i - 1].status = "ok"
       /\ calls[i].tool = "cargo" => calls[i].args = CargoArgs(TargetOfBuild(i))
       /\ calls[i].tool = "lipo" => IsMergeCreate(i)

\* a scan reads the two streams of the build that ended just before it
ScansOwnOutput ==
    \A i \in CallsOf("scan") :
       /\ i > 1
       /\ calls[i - 1].tool = "cargo"
       /\ calls[i].stdout = calls[i - 1].stdout
       /\ calls[i].stderr = calls[i - 1].stderr
       /\ (calls[i].status = "ok") <=>
             ParseNativeLibraries(calls[i - 1].stdout, calls[i - 1].stderr,
                                  request.crate_name, host).ok

BothScansDone == Len(calls) >= 5 /\ calls[5].status = "ok"

\* the list handed on holds every file of the two results once
UnionHandedOn ==
    BothScansDone =>
        /\ {native_libraries[k] : k \in 1..Len(native_libraries)} =
              ResultOfBuild(2) \cup ResultOfBuild(4)
        /\ \A k, n \in 1..Len(native_libraries) :
              native_libraries[k] = native_libraries[n] => k = n
        /\ \A i \in CallsOf("cmake") :
              IsConfigure(i) =>
                 \A k \in NativeLibraryArgs(i) :
                    calls[i].args[k] =
                       <<"-DNATIVE_LIBRARIES=">> \o
                       Join([n \in 1..Len(native_libraries) |->
                                FileDisplay(native_libraries[n])], ";")

\* C22: on the universal path the external steps run one after the other in
\* the order target installation, x86_64 build, aarch64 build, merge, each
\* only after the step before it exited with success; each build's output is
\* scanned on its own; and the native libraries handed to packaging are the
\* union of the two per-architecture results, each file once.
C22_UniversalStepsInOrder ==
    UniversalHost => (StepsInOrder /\ ScansOwnOutput /\ UnionHandedOn)

\* the merge ran after two builds with different, non-empty results, and the
\* packaging configure step got the union
C22_Witness ==
    /\ UniversalHost
    /\ Len(calls) >= 6
    /\ calls[6].status = "ok"
    /\ ResultOfBuild(2) # {}
    /\ ResultOfBuild(4) # {}
    /\ ResultOfBuild(2) # ResultOfBuild(4)
    /\ \E i \in CallsOf("cmake") : IsConfigure(i) /\ NativeLibraryArgs(i) # {}

\* ------------------------------------------------------------------------
\* C23: which line opens the target section
\* ------------------------------------------------------------------------
\* some line starts the compilation unit of the requested crate itself
HasOwnUnit(st) == \E j \in 1..Len(st) : StartsUnitOf(st[j], crate_name)

\* C23 as stated: the flag is set only after a line that starts the
\* compilation unit of the requested crate; the unit of a crate whose
\* normalized name begins with the requested one (g_e_u for g-e) does not
\* set it, and nothing is collected when no line of either stream starts the
\* requested crate's own unit.
C23_Original ==
    /\ (ppc = "scan" /\ in_target_crate) =>
          \E j \in LinesRead : StartsUnitOf(CurrentStream[j], crate_name)
    /\ (ScanComplete /\ ~HasOwnUnit(stdout) /\ ~HasOwnUnit(stderr)) => native_lib_paths = {}
====
